---- MODULE Spec2Model ----
(***************************************************************************)
(* Workflow execution engine of the paperless-lexoffice middleware:        *)
(* WorkflowExecutor.execute_workflow, TriggerHandler and ActionRunner,     *)
(* with the log store and the two external services they call.             *)
(***************************************************************************)
EXTENDS Integers, Sequences, FiniteSets, TLC

(***************************************************************************)
(* Dynamic (JSON-like) values: a tagged tuple <<tag, payload>>.            *)
(***************************************************************************)
PyNone == <<"none">>
PyBool(b) == <<"bool", b>>
PyInt(n) == <<"int", n>>
PyStr(s) == <<"str", s>>
PyBytes(s) == <<"bytes", s>>
PyList(q) == <<"list", q>>
PyDict(f) == <<"dict", f>>

Tag(v) == v[1]
Val(v) == v[2]

EmptyDict == <<>>

\* bool(v) of Python
Truthy(v) ==
  CASE Tag(v) = "none" -> FALSE
    [] Tag(v) = "bool" -> Val(v)
    [] Tag(v) = "int" -> Val(v) # 0
    [] Tag(v) = "str" -> Val(v) # ""
    [] Tag(v) = "bytes" -> Val(v) # ""
    [] Tag(v) = "list" -> Len(Val(v)) > 0
    [] Tag(v) = "dict" -> DOMAIN Val(v) # {}

\* a or b
PyOr(a, b) == IF Truthy(a) THEN a ELSE b

\* d.get(k, default) on a mapping d (a function from key strings to values)
Get(d, k, default) == IF k \in DOMAIN d THEN d[k] ELSE default

\* keys already in d keep their value, only new keys are added
Update_KeepsExisting(d, r) ==
  [k \in (DOMAIN d) \cup (DOMAIN r) |-> IF k \in DOMAIN d THEN d[k] ELSE r[k]]

\* d.update(r): shallow overwrite, keys of r win
Update(d, r) == [k \in (DOMAIN d) \cup (DOMAIN r) |-> IF k \in DOMAIN r THEN r[k] ELSE d[k]]

\* d[k] = v
SetKey(d, k, v) == [x \in (DOMAIN d) \cup {k} |-> IF x = k THEN v ELSE d[x]]

\* numbers: bool is a subclass of int
IsNum(v) == Tag(v) \in {"int", "bool"}
NumOf(v) == IF Tag(v) = "bool" THEN (IF Val(v) THEN 1 ELSE 0) ELSE Val(v)

\* a == b of Python
PyEq(a, b) == IF IsNum(a) /\ IsNum(b) THEN NumOf(a) = NumOf(b) ELSE a = b

\* x in seq (list membership uses ==)
PyInList(x, q) == \E i \in 1..Len(q) : PyEq(q[i], x)

(***************************************************************************)
(* TriggerHandler (engine/triggers.py).  An evaluation ends in one of      *)
(* "true", "false" or "raise" (an exception leaves the evaluator).         *)
(***************************************************************************)

\* str.split(".") on the field paths that occur in the stored conditions
SplitDots(s) ==
  CASE s = "payload.title" -> <<"payload", "title">>
    [] s = "payload.tags.1" -> <<"payload", "tags", "1">>
    [] s = "payload.tags.5" -> <<"payload", "tags", "5">>
    [] s = "payload.tags.x" -> <<"payload", "tags", "x">>
    [] s = "payload.tags.<sup2>" -> <<"payload", "tags", "<sup2>">>
    [] s = "payload.title.0" -> <<"payload", "title", "0">>
    [] s = "a.b" -> <<"a", "b">>
    [] s = "a.b.1" -> <<"a", "b", "1">>
    [] s = "a.b.5" -> <<"a", "b", "5">>
    [] s = "a.b.x" -> <<"a", "b", "x">>
    [] s = "a.b.<sup2>" -> <<"a", "b", "<sup2>">>
    [] s = "a.b.1.0" -> <<"a", "b", "1", "0">>
    [] s = "a.c" -> <<"a", "c">>
    [] s = "a.c.d" -> <<"a", "c", "d">>
    [] OTHER -> <<s>>

\* str.isdigit() and int() on path segments.  "<sup2>" stands for the one
\* character U+00B2 (superscript two): isdigit() is true of it, int() rejects
\* it with ValueError
DigitValue == ("0" :> 0) @@ ("1" :> 1) @@ ("5" :> 5)
IsDigit(part) == part \in (DOMAIN DigitValue) \cup {"<sup2>"}
CanInt(part) == part \in DOMAIN DigitValue

\* stands for an exception leaving a computation that yields a value
PyRaise == <<"raise">>

\* re.compile: the patterns that compile, and re.search on the texts of the model
RegexMatches == ("^Rechnung" :> {"Rechnung 1"}) @@ ("2$" :> {"Angebot 2"})
RegexValid(p) == p \in DOMAIN RegexMatches
RegexSearch(p, s) == s \in RegexMatches[p]

\* str(x) for the expected values of "contains"
StrOf(v) ==
  CASE Tag(v) = "str" -> Val(v)
    [] Tag(v) = "int" /\ Val(v) = 1 -> "1"
    [] Tag(v) = "int" /\ Val(v) = 42 -> "42"
    [] Tag(v) = "none" -> "None"
    [] OTHER -> "<repr>"

\* needle in haystack (substring) on the texts of the model
Substrings ==
  ("Rechnung 1" :> {"", "Rechnung", "1", "Rechnung 1"}) @@
  ("Angebot 2" :> {"", "Angebot", "2", "Angebot 2"}) @@
  ("abc" :> {"", "abc"}) @@ ("5" :> {"", "5"}) @@ ("" :> {""})
IsSubstring(needle, hay) ==
  IF hay \in DOMAIN Substrings THEN needle \in Substrings[hay] ELSE needle \in {"", hay}

\* float(x): defined for numbers and numeric text, else TypeError / ValueError
NumericText == ("5" :> 5) @@ ("42" :> 42)
CanFloat(v) == IsNum(v) \/ (Tag(v) = "str" /\ Val(v) \in DOMAIN NumericText)
FloatOf(v) == IF IsNum(v) THEN NumOf(v) ELSE NumericText[Val(v)]

BoolOutcome(b) == IF b THEN "true" ELSE "false"

RECURSIVE ResolveParts(_, _)
ResolveParts(parts, current) ==
  IF parts = <<>> THEN current
  ELSE LET part == Head(parts) IN
    IF Tag(current) = "dict"
      THEN ResolveParts(Tail(parts), Get(Val(current), part, PyNone))
    ELSE IF Tag(current) = "list" /\ IsDigit(part)
      THEN IF ~CanInt(part) THEN PyRaise
           ELSE LET idx == DigitValue[part] IN
                ResolveParts(Tail(parts),
                             IF idx < Len(Val(current)) THEN Val(current)[idx + 1] ELSE PyNone)
    ELSE PyNone

\* TriggerHandler._resolve_field
ResolveField(field_path, data) == ResolveParts(SplitDots(field_path), PyDict(data))

\* TriggerHandler._compare
Compare(operator, actual, expected) ==
  CASE operator = PyStr("eq") -> BoolOutcome(PyEq(actual, expected))
    [] operator = PyStr("ne") -> BoolOutcome(~PyEq(actual, expected))
    [] operator = PyStr("contains") ->
         IF Tag(actual) = "str" THEN BoolOutcome(IsSubstring(StrOf(expected), Val(actual)))
         ELSE IF Tag(actual) = "list" THEN BoolOutcome(PyInList(expected, Val(actual)))
         ELSE "false"
    [] operator = PyStr("in") ->
         IF Tag(expected) = "list" THEN BoolOutcome(PyInList(actual, Val(expected)))
         ELSE "false"
    [] operator = PyStr("matches") ->
         IF Tag(actual) = "str" /\ Tag(expected) = "str"
           THEN IF RegexValid(Val(expected))
                  THEN BoolOutcome(RegexSearch(Val(expected), Val(actual)))
                  ELSE "raise"
           ELSE "false"
    [] operator = PyStr("gt") ->
         IF CanFloat(actual) /\ CanFloat(expected)
           THEN BoolOutcome(FloatOf(actual) > FloatOf(expected)) ELSE "false"
    [] operator = PyStr("lt") ->
         IF CanFloat(actual) /\ CanFloat(expected)
           THEN BoolOutcome(FloatOf(actual) < FloatOf(expected)) ELSE "false"
    [] operator = PyStr("exists") ->
         BoolOutcome((actual # PyNone) = Truthy(expected))
    [] OTHER -> "false"

\* "for c in x": x must be iterable (else TypeError); text and mappings
\* iterate over their characters / keys, which are text
IsIterable(x) == Tag(x) \in {"list", "str", "dict"}
IterOf(x) ==
  CASE Tag(x) = "list" -> Val(x)
    [] Tag(x) = "str" -> IF Val(x) = "" THEN <<>> ELSE <<PyStr("c")>>
    [] Tag(x) = "dict" -> IF DOMAIN Val(x) = {} THEN <<>> ELSE <<PyStr("k")>>

RECURSIVE EvaluateConditions(_, _), EvalAll(_, _), EvalAny(_, _), EvalSub(_, _)

\* one element of an all/any list: a mapping is evaluated, anything else has
\* no .get (AttributeError) or supports no "in" (TypeError)
EvalSub(c, event_data) ==
  IF Tag(c) = "dict" THEN EvaluateConditions(Val(c), event_data) ELSE "raise"

\* all(...) over a generator: stops at the first false element
EvalAll(q, event_data) ==
  IF q = <<>> THEN "true"
  ELSE LET r == EvalSub(Head(q), event_data) IN
       IF r = "true" THEN EvalAll(Tail(q), event_data) ELSE r

\* any(...) over a generator: stops at the first true element
EvalAny(q, event_data) ==
  IF q = <<>> THEN "false"
  ELSE LET r == EvalSub(Head(q), event_data) IN
       IF r = "false" THEN EvalAny(Tail(q), event_data) ELSE r

\* a leaf without a field is rejected instead of passed
EvaluateConditions_FieldRequired(conditions, event_data) ==
  IF "all" \in DOMAIN conditions
    THEN IF ~IsIterable(conditions["all"]) THEN "raise"
         ELSE EvalAll(IterOf(conditions["all"]), event_data)
  ELSE IF "any" \in DOMAIN conditions
    THEN IF ~IsIterable(conditions["any"]) THEN "raise"
         ELSE EvalAny(IterOf(conditions["any"]), event_data)
  ELSE LET field == Get(conditions, "field", PyNone)
           operator == Get(conditions, "operator", PyStr("eq"))
           expected == Get(conditions, "value", PyNone)
       IN IF field = PyNone THEN "false"
          ELSE IF Tag(field) # "str" THEN "raise"
          ELSE LET actual == ResolveField(Val(field), event_data) IN
               IF actual = PyRaise THEN "raise" ELSE Compare(operator, actual, expected)

\* TriggerHandler._evaluate_conditions on a mapping
EvaluateConditions(conditions, event_data) ==
  IF "all" \in DOMAIN conditions
    THEN IF ~IsIterable(conditions["all"]) THEN "raise"
         ELSE EvalAll(IterOf(conditions["all"]), event_data)
  ELSE IF "any" \in DOMAIN conditions
    THEN IF ~IsIterable(conditions["any"]) THEN "raise"
         ELSE EvalAny(IterOf(conditions["any"]), event_data)
  ELSE LET field == Get(conditions, "field", PyNone)
           operator == Get(conditions, "operator", PyStr("eq"))
           expected == Get(conditions, "value", PyNone)
       IN IF field = PyNone THEN "true"
          ELSE IF Tag(field) # "str" THEN "raise"
          ELSE LET actual == ResolveField(Val(field), event_data) IN
               IF actual = PyRaise THEN "raise" ELSE Compare(operator, actual, expected)

\* the event type of the event is not compared with the trigger's
EvaluateTrigger_TypeUnchecked(trigger, event_data) ==
  LET event_source == Get(event_data, "source", PyStr(""))
  IN IF Truthy(event_source) /\ ~PyEq(event_source, PyStr(trigger.source)) THEN "false"
     ELSE IF ~Truthy(trigger.conditions) THEN "true"
     ELSE EvaluateConditions(Val(trigger.conditions), event_data)

\* TriggerHandler.evaluate_trigger
EvaluateTrigger(trigger, event_data) ==
  LET event_source == Get(event_data, "source", PyStr(""))
      event_type == Get(event_data, "event_type", PyStr(""))
  IN IF Truthy(event_source) /\ ~PyEq(event_source, PyStr(trigger.source)) THEN "false"
     ELSE IF Truthy(event_type) /\ ~PyEq(event_type, PyStr(trigger.event_type)) THEN "false"
     ELSE IF ~Truthy(trigger.conditions) THEN "true"
     ELSE EvaluateConditions(Val(trigger.conditions), event_data)

(***************************************************************************)
(* Stored workflows and incoming events the model draws from.              *)
(***************************************************************************)
Trigger(source, event_type, conditions) ==
  [source |-> source, event_type |-> event_type, conditions |-> conditions]

Action(action_type, parameters, sort_order) ==
  [action_type |-> action_type, parameters |-> parameters, sort_order |-> sort_order]

Leaf(field, operator, value) ==
  PyDict(("field" :> PyStr(field)) @@ ("operator" :> PyStr(operator)) @@ ("value" :> value))

TPlain == Trigger("paperless", "document_created", PyNone)
TSched == Trigger("schedule", "scheduled_run", PyNone)
TCond42 == Trigger("paperless", "document_created", Leaf("document_id", "eq", PyInt(42)))
TTitle ==
  Trigger("paperless", "document_created",
          PyDict("all" :> PyList(<<Leaf("payload.title", "matches", PyStr("^Rechnung")),
                                   Leaf("payload.tags", "contains", PyInt(1))>>)))
TBadRegex == Trigger("paperless", "document_created", Leaf("payload.title", "matches", PyStr("(")))

TriggerLists ==
  { <<>>, <<TCond42>>, <<TSched, TCond42>>, <<TTitle, TSched>>, <<TBadRegex, TPlain>> }

AVoucher(so) == Action("create_lexoffice_voucher", PyNone, so)
AVoucherFor(so) == Action("create_lexoffice_voucher", PyDict("contact_id" :> PyStr("c-param")), so)
ASync(so) == Action("sync_contact", PyDict("correspondent_name" :> PyStr("ACME")), so)
ASyncCtx(so) == Action("sync_contact", PyNone, so)
ASetTag(so) == Action("set_tag", PyDict("tag_id" :> PyInt(5)), so)
ASetTagCtx(so) == Action("set_tag", PyNone, so)
ADownload(so) == Action("download_document", PyNone, so)
AUpload(so) == Action("upload_to_paperless", PyDict("title" :> PyStr("Kopie")), so)
AUnknown(so) == Action("send_email", PyNone, so)

\* as loaded through Workflow.actions (order_by sort_order; ties in stored order)
ActionLists ==
  { <<>>,
    <<ASync(0), AVoucher(1), ASetTagCtx(1)>>,
    <<ADownload(0), AUpload(0)>>,
    <<ASetTag(0), AUnknown(0), AVoucher(1)>>,
    <<ASyncCtx(1), AVoucherFor(1), ASetTag(2)>> }

WorkflowDefs == [enabled : BOOLEAN, triggers : TriggerLists, actions : ActionLists]

\* ids with a row in the workflows table, and one id without
WorkflowIds == {"w1"}
UnknownIds == {"w0"}

EvEmpty == EmptyDict
EvDoc42 ==
  ("source" :> PyStr("paperless")) @@ ("event_type" :> PyStr("document_created")) @@
  ("document_id" :> PyInt(42)) @@
  ("payload" :> PyDict(("title" :> PyStr("Rechnung 1")) @@ ("tags" :> PyList(<<PyInt(1), PyInt(5)>>))))
EvDoc7 ==
  ("source" :> PyStr("paperless")) @@ ("event_type" :> PyStr("document_created")) @@
  ("document_id" :> PyInt(7)) @@
  ("payload" :> PyDict(("title" :> PyStr("Angebot 2")) @@ ("tags" :> PyList(<<>>))))
EvSched == ("source" :> PyStr("schedule")) @@ ("event_type" :> PyStr("scheduled_run"))
EvManual ==
  ("document_id" :> PyInt(42)) @@ ("correspondent_name" :> PyStr("Muster GmbH")) @@
  ("lexoffice_contact_id" :> PyStr("c-event")) @@ ("tag_id" :> PyInt(5))

Events == {EvEmpty, EvDoc42, EvDoc7, EvSched, EvManual}

\* number of executions (calls of execute_workflow) that may overlap
MaxExecs == 2
Execs == 1..MaxExecs

(***************************************************************************)
(* The two external services behind the connectors                        *)
(* (connectors/lexoffice.py, connectors/paperless.py).                     *)
(***************************************************************************)
DocIds == {42}
DocFileName(doc) == PyStr("rechnung.pdf")
DocContent(doc) == PyBytes("%PDF-42")
BytesLen(b) == IF Val(b) = "" THEN 0 ELSE 7

\* ids the accounting service hands out, in order
VoucherIds == <<"v1", "v2", "v3", "v4", "v5", "v6">>
ContactIds == <<"c1", "c2", "c3", "c4", "c5", "c6">>

InitLexoffice ==
  [contacts |-> {[id |-> "c1", name |-> PyStr("ACME")]}, vouchers |-> {}]
InitPaperless ==
  [tags |-> [d \in DocIds |-> <<1>>], uploads |-> {}]

ContactDict(c) == PyDict(("id" :> PyStr(c.id)) @@ ("name" :> c.name))

\* GET /v1/contacts?name=...: the page of contacts with that name
SearchContent(lex, name) ==
  LET hit(i) == \E c \in lex.contacts : c.id = ContactIds[i] /\ c.name = name
      ids == SelectSeq([i \in 1..Len(ContactIds) |-> i], hit)
  IN PyList([k \in 1..Len(ids) |-> ContactDict([id |-> ContactIds[ids[k]], name |-> name])])

DocJson(pl, doc) ==
  PyDict(("id" :> PyInt(doc)) @@ ("original_file_name" :> DocFileName(doc)) @@
         ("tags" :> PyList([i \in 1..Len(pl.tags[doc]) |-> PyInt(pl.tags[doc][i])])))

\* whether the service can answer the request with 2xx at all
CanSucceed(call) ==
  IF call.op \in {"get_document", "update_document", "download_document"}
    THEN Tag(call.args["document_id"]) = "int" /\ Val(call.args["document_id"]) \in DocIds
    ELSE TRUE

\* the 2xx answer of the service to a request
Response(call, lex, pl) ==
  CASE call.op = "create_voucher" -> PyDict("id" :> PyStr(VoucherIds[Cardinality(lex.vouchers) + 1]))
    [] call.op = "search_contacts" -> PyDict("content" :> SearchContent(lex, call.args["name"]))
    [] call.op = "create_contact" -> PyDict("id" :> PyStr(ContactIds[Cardinality(lex.contacts) + 1]))
    [] call.op = "get_document" -> DocJson(pl, Val(call.args["document_id"]))
    [] call.op = "update_document" ->
         DocJson([pl EXCEPT !.tags[Val(call.args["document_id"])] =
                    [i \in 1..Len(Val(call.args["tags"])) |-> Val(Val(call.args["tags"])[i])]],
                 Val(call.args["document_id"]))
    [] call.op = "download_document" -> DocContent(Val(call.args["document_id"]))
    [] call.op = "upload_document" -> PyStr("task-1")

\* the state of the accounting service after the request
LexAfter(call, lex) ==
  CASE call.op = "create_voucher" ->
         [lex EXCEPT !.vouchers = @ \cup
            {[id |-> VoucherIds[Cardinality(lex.vouchers) + 1], data |-> call.args]}]
    [] call.op = "create_contact" ->
         [lex EXCEPT !.contacts = @ \cup
            {[id |-> ContactIds[Cardinality(lex.contacts) + 1],
              name |-> Val(call.args["company"])["name"]]}]
    [] OTHER -> lex

\* the state of the document service after the request
PlAfter(call, pl) ==
  CASE call.op = "update_document" ->
         [pl EXCEPT !.tags[Val(call.args["document_id"])] =
            [i \in 1..Len(Val(call.args["tags"])) |-> Val(Val(call.args["tags"])[i])]]
    [] call.op = "upload_document" ->
         [pl EXCEPT !.uploads = @ \cup {[n |-> Cardinality(pl.uploads) + 1, data |-> call.args]}]
    [] OTHER -> pl

(***************************************************************************)
(* ActionRunner (engine/actions.py).  A handler runs until it returns its  *)
(* result map or awaits an external call; it is resumed with the answer.   *)
(***************************************************************************)
ActionTypes ==
  {"create_lexoffice_voucher", "upload_to_paperless", "sync_contact", "set_tag",
   "download_document"}

\* ActionRunner._action_map.get(action_type) finds a handler
HasHandler(action_type) == action_type \in ActionTypes

\* action.parameters or {}
Params(action) == IF Truthy(action.parameters) THEN Val(action.parameters) ELSE EmptyDict

NoCall == [op |-> "", args |-> EmptyDict, stage |-> "", held |-> PyNone]
Call(op, args, stage, held) == [op |-> op, args |-> args, stage |-> stage, held |-> held]

Returns(result, context) == [kind |-> "return", result |-> result, context |-> context, call |-> NoCall]
Awaits(call, context) == [kind |-> "call", result |-> EmptyDict, context |-> context, call |-> call]

\* connectors a handler obtains (_get_paperless / _get_lexoffice) before anything else
Opens(action_type) ==
  CASE action_type = "create_lexoffice_voucher" -> {"lexoffice"}
    [] action_type = "sync_contact" -> {"paperless", "lexoffice"}
    [] action_type \in {"upload_to_paperless", "set_tag", "download_document"} -> {"paperless"}
    [] OTHER -> {}

\* the contact of the context wins over the contact_id parameter
VoucherData_ContextFirst(params, context) ==
  LET base ==
        ("type" :> Get(params, "voucher_type", PyStr("purchaseinvoice"))) @@
        ("voucherNumber" :> Get(params, "voucher_number", PyStr(""))) @@
        ("voucherDate" :> Get(params, "voucher_date", PyStr("today"))) @@
        ("totalGrossAmount" :>
           Get(params, "total_gross_amount", Get(context, "total_gross_amount", PyInt(0)))) @@
        ("taxType" :> Get(params, "tax_type", PyStr("gross"))) @@
        ("voucherItems" :> Get(params, "voucher_items", PyList(<<>>)))
      contact_id ==
        PyOr(Get(context, "lexoffice_contact_id", PyNone), Get(params, "contact_id", PyNone))
  IN IF Truthy(contact_id) THEN SetKey(base, "contactId", contact_id) ELSE base

\* voucher_data of _create_lexoffice_voucher
VoucherData(params, context) ==
  LET base ==
        ("type" :> Get(params, "voucher_type", PyStr("purchaseinvoice"))) @@
        ("voucherNumber" :> Get(params, "voucher_number", PyStr(""))) @@
        ("voucherDate" :> Get(params, "voucher_date", PyStr("today"))) @@
        ("totalGrossAmount" :>
           Get(params, "total_gross_amount", Get(context, "total_gross_amount", PyInt(0)))) @@
        ("taxType" :> Get(params, "tax_type", PyStr("gross"))) @@
        ("voucherItems" :> Get(params, "voucher_items", PyList(<<>>)))
      contact_id ==
        PyOr(Get(params, "contact_id", PyNone), Get(context, "lexoffice_contact_id", PyNone))
  IN IF Truthy(contact_id) THEN SetKey(base, "contactId", contact_id) ELSE base

\* the file is looked for in the parameters of the action
UploadArgs_FromParams(params, context) ==
  ("file_content" :> Get(params, "file_content", PyBytes(""))) @@
  ("filename" :> Get(params, "filename", Get(context, "filename", PyStr("document.pdf")))) @@
  ("title" :> PyOr(Get(params, "title", PyNone), Get(context, "title", PyNone))) @@
  ("correspondent" :>
     PyOr(Get(params, "correspondent_id", PyNone), Get(context, "correspondent_id", PyNone))) @@
  ("document_type" :>
     PyOr(Get(params, "document_type_id", PyNone), Get(context, "document_type_id", PyNone))) @@
  ("tags" :> PyOr(Get(params, "tag_ids", PyNone), Get(context, "tag_ids", PyNone)))

\* arguments of upload_document built by _upload_to_paperless
UploadArgs(params, context) ==
  ("file_content" :> Get(context, "file_content", PyBytes(""))) @@
  ("filename" :> Get(params, "filename", Get(context, "filename", PyStr("document.pdf")))) @@
  ("title" :> PyOr(Get(params, "title", PyNone), Get(context, "title", PyNone))) @@
  ("correspondent" :>
     PyOr(Get(params, "correspondent_id", PyNone), Get(context, "correspondent_id", PyNone))) @@
  ("document_type" :>
     PyOr(Get(params, "document_type_id", PyNone), Get(context, "document_type_id", PyNone))) @@
  ("tags" :> PyOr(Get(params, "tag_ids", PyNone), Get(context, "tag_ids", PyNone)))

\* a placeholder name stands in for a missing one
CorrespondentName_Placeholder(params, context) ==
  Get(params, "correspondent_name", Get(context, "correspondent_name", PyStr("Unbekannt")))

CorrespondentName(params, context) ==
  Get(params, "correspondent_name", Get(context, "correspondent_name", PyStr("")))

\* params.get("document_id") or context.get("document_id", 0)
DocumentId(params, context) ==
  PyOr(Get(params, "document_id", PyNone), Get(context, "document_id", PyInt(0)))

\* _set_tag reads the tag id from the parameters only
TagId(params, context) == Get(params, "tag_id", PyInt(0))

\* the handler from its entry to its first await or return
BeginHandler(action, context) ==
  LET params == Params(action)
      t == action.action_type
  IN CASE t = "create_lexoffice_voucher" ->
            Awaits(Call("create_voucher", VoucherData(params, context), "voucher", PyNone), context)
       [] t = "upload_to_paperless" ->
            Awaits(Call("upload_document", UploadArgs(params, context), "upload", PyNone), context)
       [] t = "sync_contact" ->
            IF ~Truthy(CorrespondentName(params, context))
              THEN Returns(("synced" :> PyBool(FALSE)) @@
                           ("reason" :> PyStr("No correspondent name provided")), context)
              ELSE Awaits(Call("search_contacts", "name" :> CorrespondentName(params, context),
                               "search", PyNone), context)
       [] t = "set_tag" ->
            IF ~Truthy(DocumentId(params, context)) \/ ~Truthy(TagId(params, context))
              THEN Returns(("tagged" :> PyBool(FALSE)) @@
                           ("reason" :> PyStr("Missing document_id or tag_id")), context)
              ELSE Awaits(Call("get_document", "document_id" :> DocumentId(params, context),
                               "tag_get", PyNone), context)
       [] t = "download_document" ->
            IF ~Truthy(DocumentId(params, context))
              THEN Returns(("downloaded" :> PyBool(FALSE)) @@
                           ("reason" :> PyStr("Missing document_id")), context)
              ELSE Awaits(Call("download_document", "document_id" :> DocumentId(params, context),
                               "download", PyNone), context)

\* the outcome of the search is not looked at: a contact is always created
HasContact_Ignored(contacts) == FALSE

\* line 119, if contacts: the search found a contact
HasContact(contacts) == Truthy(contacts)

\* current_tags of add_tag_to_document: append the tag if absent
WithTag(tags, tag_id) ==
  IF PyInList(tag_id, Val(tags)) THEN tags ELSE PyList(Append(Val(tags), tag_id))

\* the handler from the answer of its pending call to its next await or return
ResumeHandler(action, context, call, resp) ==
  LET params == Params(action)
      st == call.stage
  IN CASE st = "voucher" -> Returns("voucher" :> resp, context)
       [] st = "upload" -> Returns("upload" :> resp, context)
       [] st = "search" ->
            LET contacts == Get(Val(resp), "content", PyList(<<>>)) IN
            IF HasContact(contacts)
              THEN Returns(("synced" :> PyBool(TRUE)) @@
                           ("lexoffice_contact_id" :> Get(Val(Val(contacts)[1]), "id", PyStr(""))) @@
                           ("created" :> PyBool(FALSE)), context)
              ELSE Awaits(Call("create_contact",
                               ("version" :> PyInt(0)) @@
                               ("roles" :> PyDict("customer" :> PyDict(EmptyDict))) @@
                               ("company" :> PyDict("name" :> CorrespondentName(params, context))),
                               "create", PyNone), context)
       [] st = "create" ->
            Returns(("synced" :> PyBool(TRUE)) @@
                    ("lexoffice_contact_id" :> Get(Val(resp), "id", PyStr(""))) @@
                    ("created" :> PyBool(TRUE)), context)
       [] st = "tag_get" ->
            Awaits(Call("update_document",
                        ("document_id" :> call.args["document_id"]) @@
                        ("tags" :> WithTag(Get(Val(resp), "tags", PyList(<<>>)), TagId(params, context))),
                        "tag_patch", PyNone), context)
       [] st = "tag_patch" ->
            Returns(("tagged" :> PyBool(TRUE)) @@ ("document" :> resp), context)
       [] st = "download" ->
            Awaits(Call("get_document", "document_id" :> call.args["document_id"], "meta", resp),
                   context)
       [] st = "meta" ->
            LET filename == Get(Val(resp), "original_file_name", PyStr("document_N.pdf")) IN
            Returns(("downloaded" :> PyBool(TRUE)) @@ ("filename" :> filename) @@
                    ("size" :> PyInt(BytesLen(call.held))),
                    SetKey(SetKey(context, "file_content", call.held), "filename", filename))

(***************************************************************************)
(* WorkflowExecutor.execute_workflow (engine/executor.py), one step per    *)
(* stretch of code between two awaits.                                     *)
(***************************************************************************)
VARIABLES
  workflows,        \* the workflows table: id -> stored workflow
  lexoffice,        \* state of the accounting service
  paperless,        \* state of the document service
  pc,               \* where each execution stands
  wf_id,            \* argument workflow_id
  trigger_data,     \* argument trigger_data
  log_entry,        \* the WorkflowLog of the execution
  trig_idx,         \* position of the trigger loop
  trigger_matched,
  context,
  action_results,
  act_pos,          \* position of the action loop in the sorted list
  pending,          \* the external call the running handler awaits
  connectors,       \* ActionRunner._paperless / ._lexoffice
  evaluated,        \* history: triggers evaluated, by stored position
  dispatched,       \* history: actions handed to run_action, by stored position
  calls,            \* history: external requests sent
  raised,           \* history: the exception caught by the executor
  th_input,         \* a direct call of a TriggerHandler method: its arguments
  th_output,       \* what that call gave: a truth value, a value, or an exception
  caller,           \* the scheduler sweep or the webhook request that runs executions
  lexconn           \* one LexofficeConnector: its clock, throttle and requests sent

vars ==
  <<workflows, lexoffice, paperless, pc, wf_id, trigger_data, log_entry, trig_idx,
    trigger_matched, context, action_results, act_pos, pending, connectors,
    evaluated, dispatched, calls, raised>>

NoLog ==
  [workflow_id |-> "", status |-> "none", input_data |-> EmptyDict,
   output_data |-> PyNone, error_message |-> <<>>]
NoRaise == [pos |-> 0, message |-> <<>>]
NoConnectors == [c \in {"paperless", "lexoffice"} |-> "unset"]
NoInput == [fn |-> "none"]
NoOutput == <<"none">>
NoCaller == [kind |-> "none"]
NoConnector == [pc |-> "unused"]

Init ==
  /\ workflows \in [WorkflowIds -> WorkflowDefs]
  /\ lexoffice = InitLexoffice
  /\ paperless = InitPaperless
  /\ pc = [e \in Execs |-> "idle"]
  /\ wf_id = [e \in Execs |-> ""]
  /\ trigger_data = [e \in Execs |-> EmptyDict]
  /\ log_entry = [e \in Execs |-> NoLog]
  /\ trig_idx = [e \in Execs |-> 0]
  /\ trigger_matched = [e \in Execs |-> FALSE]
  /\ context = [e \in Execs |-> EmptyDict]
  /\ action_results = [e \in Execs |-> <<>>]
  /\ act_pos = [e \in Execs |-> 0]
  /\ pending = [e \in Execs |-> NoCall]
  /\ connectors = [e \in Execs |-> NoConnectors]
  /\ evaluated = [e \in Execs |-> <<>>]
  /\ dispatched = [e \in Execs |-> <<>>]
  /\ calls = [e \in Execs |-> <<>>]
  /\ raised = [e \in Execs |-> NoRaise]
  /\ th_input = NoInput
  /\ th_output = NoOutput
  /\ caller = NoCaller
  /\ lexconn = NoConnector

\* INSERT of the log row: workflow_id is a NOT NULL foreign key to workflows.id
FlushSucceeds(wid) == wid \in DOMAIN workflows

\* sorted(workflow.actions, key=sort_order): stable, as positions of the stored list

\* an unstable sort: an action goes before the actions of equal sort_order
RECURSIVE InsertByKey_Unstable(_, _, _)
InsertByKey_Unstable(q, i, acts) ==
  IF q = <<>> THEN <<i>>
  ELSE IF acts[Head(q)].sort_order < acts[i].sort_order
    THEN <<Head(q)>> \o InsertByKey_Unstable(Tail(q), i, acts)
    ELSE <<i>> \o q

RECURSIVE InsertByKey(_, _, _)
InsertByKey(q, i, acts) ==
  IF q = <<>> THEN <<i>>
  ELSE IF acts[Head(q)].sort_order <= acts[i].sort_order
    THEN <<Head(q)>> \o InsertByKey(Tail(q), i, acts)
    ELSE <<i>> \o q

RECURSIVE SortPrefix(_, _)
SortPrefix(acts, n) == IF n = 0 THEN <<>> ELSE InsertByKey(SortPrefix(acts, n - 1), n, acts)

SortOrder(acts) == SortPrefix(acts, Len(acts))

Workflow(e) == workflows[wf_id[e]]

\* str(exc) of the exceptions that reach the executor
NotFoundMessage(wid) == <<"Workflow", wid, "not found">>
UnknownActionMessage(action_type) == <<"Unknown action type:", action_type>>
HttpErrorMessage(op) == <<"HTTP error", op>>
EvalErrorMessage == <<"condition evaluation failed">>



\* the handler stores what was collected so far as the output
Caught_KeepsOutput(entry, message) ==
  [entry EXCEPT !.status = "error", !.error_message = message,
                !.output_data = PyDict("actions" :> PyList(<<>>))]

\* the handler records the message but leaves the status as it was
Caught_StatusKept(entry, message) == [entry EXCEPT !.error_message = message]

\* except Exception as exc: status = "error", error_message = str(exc)
Caught(entry, message) == [entry EXCEPT !.status = "error", !.error_message = message]


\* the enabled flag is not consulted
IsDisabled_Ignored(workflow) == FALSE

\* line 52: if not workflow.enabled
IsDisabled(workflow) == ~workflow.enabled


\* the run goes on to the actions whether or not a trigger matched
SkipsUnmatched_Never(matched, triggers) == FALSE

\* the test for an empty trigger list is missing
SkipsUnmatched_EmptyToo(matched, triggers) == ~matched

\* line 69: if not trigger_matched and workflow.triggers
SkipsUnmatched(matched, triggers) == ~matched /\ triggers # <<>>

\* lines 35-41: create the log entry, add it to the session, flush
ExecStart(e, wid, ev) ==
  /\ pc[e] = "idle"
  /\ \A d \in Execs : d < e => pc[d] # "idle"
  /\ wf_id' = [wf_id EXCEPT ![e] = wid]
  /\ trigger_data' = [trigger_data EXCEPT ![e] = ev]
  /\ log_entry' = [log_entry EXCEPT ![e] =
       [workflow_id |-> wid, status |-> "running", input_data |-> ev,
        output_data |-> PyNone, error_message |-> <<>>]]
  /\ pc' = [pc EXCEPT ![e] = IF FlushSucceeds(wid) THEN "load" ELSE "raised"]
  /\ UNCHANGED <<caller, lexconn, th_input, th_output, workflows, lexoffice, paperless, trig_idx, trigger_matched, context,
                 action_results, act_pos, pending, connectors, evaluated, dispatched,
                 calls, raised>>

\* lines 45-55: load the workflow; not found -> except; disabled -> skipped
ExecLoad(e) ==
  /\ pc[e] = "load"
  /\ IF wf_id[e] \notin DOMAIN workflows
       THEN /\ log_entry' = [log_entry EXCEPT ![e] = Caught(@, NotFoundMessage(wf_id[e]))]
            /\ raised' = [raised EXCEPT ![e] = [pos |-> 0, message |-> NotFoundMessage(wf_id[e])]]
            /\ pc' = [pc EXCEPT ![e] = "finally"]
            /\ UNCHANGED trig_idx
       ELSE IF IsDisabled(Workflow(e))
         THEN /\ log_entry' = [log_entry EXCEPT ![e] =
                   [@ EXCEPT !.status = "skipped",
                             !.output_data = PyDict("reason" :> PyStr("Workflow is disabled"))]]
              /\ pc' = [pc EXCEPT ![e] = "finally"]
              /\ UNCHANGED <<trig_idx, raised>>
         ELSE /\ trig_idx' = [trig_idx EXCEPT ![e] = 1]
              /\ pc' = [pc EXCEPT ![e] = "triggers"]
              /\ UNCHANGED <<log_entry, raised>>
  /\ UNCHANGED <<caller, lexconn, th_input, th_output, workflows, lexoffice, paperless, wf_id, trigger_data, trigger_matched,
                 context, action_results, act_pos, pending, connectors, evaluated,
                 dispatched, calls>>

\* lines 59-67: one turn of the trigger loop
ExecTrigger(e) ==
  /\ pc[e] = "triggers"
  /\ ~trigger_matched[e]
  /\ trig_idx[e] <= Len(Workflow(e).triggers)
  /\ LET r == EvaluateTrigger(Workflow(e).triggers[trig_idx[e]], trigger_data[e]) IN
     /\ evaluated' = [evaluated EXCEPT ![e] = Append(@, trig_idx[e])]
     /\ IF r = "raise"
          THEN /\ log_entry' = [log_entry EXCEPT ![e] = Caught(@, EvalErrorMessage)]
               /\ raised' = [raised EXCEPT ![e] = [pos |-> 0, message |-> EvalErrorMessage]]
               /\ pc' = [pc EXCEPT ![e] = "finally"]
               /\ UNCHANGED <<trigger_matched, trig_idx>>
          ELSE /\ trigger_matched' = [trigger_matched EXCEPT ![e] = (r = "true")]
               /\ trig_idx' = [trig_idx EXCEPT ![e] = IF r = "true" THEN @ ELSE @ + 1]
               /\ UNCHANGED <<log_entry, raised, pc>>
  /\ UNCHANGED <<caller, lexconn, th_input, th_output, workflows, lexoffice, paperless, wf_id, trigger_data, context,
                 action_results, act_pos, pending, connectors, dispatched, calls>>

\* lines 69-76: after the loop: skipped, or set up the action loop
ExecAfterTriggers(e) ==
  /\ pc[e] = "triggers"
  /\ trigger_matched[e] \/ trig_idx[e] > Len(Workflow(e).triggers)
  /\ IF SkipsUnmatched(trigger_matched[e], Workflow(e).triggers)
       THEN /\ log_entry' = [log_entry EXCEPT ![e] =
                 [@ EXCEPT !.status = "skipped",
                           !.output_data = PyDict("reason" :> PyStr("No trigger matched"))]]
            /\ pc' = [pc EXCEPT ![e] = "finally"]
            /\ UNCHANGED <<context, action_results, act_pos>>
       ELSE /\ context' = [context EXCEPT ![e] = trigger_data[e]]
            /\ action_results' = [action_results EXCEPT ![e] = <<>>]
            /\ act_pos' = [act_pos EXCEPT ![e] = 1]
            /\ pc' = [pc EXCEPT ![e] = "actions"]
            /\ UNCHANGED log_entry
  /\ UNCHANGED <<caller, lexconn, th_input, th_output, workflows, lexoffice, paperless, wf_id, trigger_data, trig_idx,
                 trigger_matched, pending, connectors, evaluated, dispatched, calls, raised>>

\* the action the loop is at, and its place in the stored list
StoredPos(e) == SortOrder(Workflow(e).actions)[act_pos[e]]
CurrentAction(e) == Workflow(e).actions[StoredPos(e)]


\* the entry names the handler's target instead of the action type
ResultEntry_WrongType(action, result) ==
  PyDict(("action_type" :> PyStr("action")) @@ ("result" :> PyDict(result)))

\* lines 85-90: record the result, merge it into the context, go on
ResultEntry(action, result) ==
  PyDict(("action_type" :> PyStr(action.action_type)) @@ ("result" :> PyDict(result)))

\* the context is kept on an object shared by the executions of a workflow
Proceed_SharedContext(e, h) ==
  IF h.kind = "call"
    THEN /\ pending' = [pending EXCEPT ![e] = h.call]
         /\ calls' = [calls EXCEPT ![e] = Append(@, [op |-> h.call.op, pos |-> act_pos[e]])]
         /\ context' = [context EXCEPT ![e] = h.context]
         /\ pc' = [pc EXCEPT ![e] = "await"]
         /\ UNCHANGED <<action_results, act_pos>>
    ELSE /\ pending' = [pending EXCEPT ![e] = NoCall]
         /\ action_results' = [action_results EXCEPT ![e] =
                                 Append(@, ResultEntry(CurrentAction(e), h.result))]
         /\ context' = [d \in Execs |->
                          IF wf_id[d] = wf_id[e] /\ pc[d] \in {"actions", "await"}
                            THEN Update(h.context, h.result) ELSE context[d]]
         /\ act_pos' = [act_pos EXCEPT ![e] = @ + 1]
         /\ pc' = [pc EXCEPT ![e] = "actions"]
         /\ UNCHANGED calls

\* what the executor does with what a handler hands back: either the handler
\* awaits a request (sent now), or run_action returned
Proceed(e, h) ==
  IF h.kind = "call"
    THEN /\ pending' = [pending EXCEPT ![e] = h.call]
         /\ calls' = [calls EXCEPT ![e] = Append(@, [op |-> h.call.op, pos |-> act_pos[e]])]
         /\ context' = [context EXCEPT ![e] = h.context]
         /\ pc' = [pc EXCEPT ![e] = "await"]
         /\ UNCHANGED <<action_results, act_pos>>
    ELSE /\ pending' = [pending EXCEPT ![e] = NoCall]
         /\ action_results' = [action_results EXCEPT ![e] =
                                 Append(@, ResultEntry(CurrentAction(e), h.result))]
         /\ context' = [context EXCEPT ![e] = Update(h.context, h.result)]
         /\ act_pos' = [act_pos EXCEPT ![e] = @ + 1]
         /\ pc' = [pc EXCEPT ![e] = "actions"]
         /\ UNCHANGED calls


\* the exception is recorded and the loop goes on with the next action
Fails_Continues(e, message) ==
  /\ log_entry' = [log_entry EXCEPT ![e] = Caught(@, message)]
  /\ raised' = [raised EXCEPT ![e] = [pos |-> act_pos[e], message |-> message]]
  /\ pending' = [pending EXCEPT ![e] = NoCall]
  /\ act_pos' = [act_pos EXCEPT ![e] = @ + 1]
  /\ pc' = [pc EXCEPT ![e] = "actions"]
  /\ UNCHANGED <<context, action_results, calls>>

\* an exception leaves run_action: lines 96-99
Fails(e, message) ==
  /\ log_entry' = [log_entry EXCEPT ![e] = Caught(@, message)]
  /\ raised' = [raised EXCEPT ![e] = [pos |-> act_pos[e], message |-> message]]
  /\ pending' = [pending EXCEPT ![e] = NoCall]
  /\ pc' = [pc EXCEPT ![e] = "finally"]
  /\ UNCHANGED <<context, action_results, act_pos, calls>>

\* an action type without a handler is passed over with an empty result
ExecDispatch_SkipsUnknown(e) ==
  /\ pc[e] = "actions"
  /\ act_pos[e] <= Len(Workflow(e).actions)
  /\ dispatched' = [dispatched EXCEPT ![e] = Append(@, StoredPos(e))]
  /\ IF ~HasHandler(CurrentAction(e).action_type)
       THEN /\ Proceed(e, Returns(EmptyDict, context[e]))
            /\ UNCHANGED <<connectors, log_entry, raised>>
       ELSE /\ connectors' = [connectors EXCEPT ![e] =
                 [c \in DOMAIN @ |->
                    IF c \in Opens(CurrentAction(e).action_type) /\ @[c] = "unset"
                      THEN "open" ELSE @[c]]]
            /\ Proceed(e, BeginHandler(CurrentAction(e), context[e]))
            /\ UNCHANGED <<log_entry, raised>>
  /\ UNCHANGED <<caller, lexconn, th_input, th_output, workflows, lexoffice, paperless, wf_id, trigger_data,
                 trig_idx, trigger_matched, evaluated>>

\* line 78-84: next action of the sorted list goes to ActionRunner.run_action
ExecDispatch(e) ==
  /\ pc[e] = "actions"
  /\ act_pos[e] <= Len(Workflow(e).actions)
  /\ dispatched' = [dispatched EXCEPT ![e] = Append(@, StoredPos(e))]
  /\ IF ~HasHandler(CurrentAction(e).action_type)
       THEN /\ Fails(e, UnknownActionMessage(CurrentAction(e).action_type))
            /\ UNCHANGED connectors
       ELSE /\ connectors' = [connectors EXCEPT ![e] =
                 [c \in DOMAIN @ |->
                    IF c \in Opens(CurrentAction(e).action_type) /\ @[c] = "unset"
                      THEN "open" ELSE @[c]]]
            /\ Proceed(e, BeginHandler(CurrentAction(e), context[e]))
            /\ UNCHANGED <<log_entry, raised>>
  /\ UNCHANGED <<caller, lexconn, th_input, th_output, workflows, lexoffice, paperless, wf_id, trigger_data, trig_idx,
                 trigger_matched, evaluated>>

\* the awaited request is answered with 2xx and the handler goes on
ExtSucceed(e) ==
  /\ pc[e] = "await"
  /\ CanSucceed(pending[e])
  /\ lexoffice' = LexAfter(pending[e], lexoffice)
  /\ paperless' = PlAfter(pending[e], paperless)
  /\ Proceed(e, ResumeHandler(CurrentAction(e), context[e], pending[e],
                              Response(pending[e], lexoffice, paperless)))
  /\ UNCHANGED <<caller, lexconn, th_input, th_output, workflows, wf_id, trigger_data, log_entry, trig_idx, trigger_matched,
                 connectors, evaluated, dispatched, raised>>

\* the awaited request fails (raise_for_status or a transport error)
ExtFail(e) ==
  /\ pc[e] = "await"
  /\ Fails(e, HttpErrorMessage(pending[e].op))
  /\ UNCHANGED <<caller, lexconn, th_input, th_output, workflows, lexoffice, paperless, wf_id, trigger_data, trig_idx,
                 trigger_matched, connectors, evaluated, dispatched>>

\* lines 92-93: the loop ran through
ExecSuccess(e) ==
  /\ pc[e] = "actions"
  /\ act_pos[e] > Len(Workflow(e).actions)
  /\ log_entry' = [log_entry EXCEPT ![e] =
       [@ EXCEPT !.status = "success",
                 !.output_data = PyDict("actions" :> PyList(action_results[e]))]]
  /\ pc' = [pc EXCEPT ![e] = "finally"]
  /\ UNCHANGED <<caller, lexconn, th_input, th_output, workflows, lexoffice, paperless, wf_id, trigger_data, trig_idx,
                 trigger_matched, context, action_results, act_pos, pending, connectors,
                 evaluated, dispatched, calls, raised>>

\* close() sits at the end of the try block instead of in a finally clause
ExecFinally_OnSuccessOnly(e) ==
  /\ pc[e] = "finally"
  /\ connectors' = [connectors EXCEPT ![e] =
       [c \in DOMAIN @ |->
          IF @[c] = "open" /\ log_entry[e].status = "success" THEN "closed" ELSE @[c]]]
  /\ pc' = [pc EXCEPT ![e] = "done"]
  /\ UNCHANGED <<caller, lexconn, th_input, th_output, workflows, lexoffice, paperless, wf_id, trigger_data,
                 log_entry, trig_idx, trigger_matched, context, action_results, act_pos,
                 pending, evaluated, dispatched, calls, raised>>

\* lines 101-104: ActionRunner.close(), then return log_entry
ExecFinally(e) ==
  /\ pc[e] = "finally"
  /\ connectors' = [connectors EXCEPT ![e] =
       [c \in DOMAIN @ |-> IF @[c] = "open" THEN "closed" ELSE @[c]]]
  /\ pc' = [pc EXCEPT ![e] = "done"]
  /\ UNCHANGED <<caller, lexconn, th_input, th_output, workflows, lexoffice, paperless, wf_id, trigger_data, log_entry, trig_idx,
                 trigger_matched, context, action_results, act_pos, pending, evaluated,
                 dispatched, calls, raised>>

Next ==
  \E e \in Execs :
    \/ \E wid \in WorkflowIds \cup UnknownIds, ev \in Events : ExecStart(e, wid, ev)
    \/ ExecLoad(e)
    \/ ExecTrigger(e)
    \/ ExecAfterTriggers(e)
    \/ ExecDispatch(e)
    \/ ExtSucceed(e)
    \/ ExtFail(e)
    \/ ExecSuccess(e)
    \/ ExecFinally(e)

Spec == Init /\ [][Next]_vars

(***************************************************************************)
(* Direct calls of the TriggerHandler methods (engine/triggers.py): one     *)
(* call per behaviour, its arguments drawn from the sets below.            *)
(***************************************************************************)
DataAB == "a" :> PyDict("b" :> PyList(<<PyInt(10), PyInt(20)>>))

EvNoSource == ("event_type" :> PyStr("document_created")) @@ ("document_id" :> PyInt(42))
EvEmptySource ==
  ("source" :> PyStr("")) @@ ("event_type" :> PyNone) @@ ("document_id" :> PyInt(42))
EvDeleted ==
  ("source" :> PyStr("paperless")) @@ ("event_type" :> PyStr("document_deleted")) @@
  ("document_id" :> PyInt(42)) @@ ("payload" :> PyDict("title" :> PyStr("Rechnung 1")))

LEq42 == Leaf("document_id", "eq", PyInt(42))
LTitle == Leaf("payload.title", "matches", PyStr("^Rechnung"))
LBadRegex == Leaf("payload.title", "matches", PyStr("("))
LNoField == PyDict(("operator" :> PyStr("matches")) @@ ("value" :> PyStr("(")))
LNoFieldOp == PyDict(("operator" :> PyStr("startswith")) @@ ("value" :> PyNone))
LGtText == Leaf("payload.title", "gt", PyInt(5))
LUnknownOp == Leaf("document_id", "startswith", PyInt(4))
LSupIndex == Leaf("payload.tags.<sup2>", "exists", PyBool(TRUE))
LEmpty == PyDict(EmptyDict)

Leaves ==
  {LEq42, LTitle, LBadRegex, LNoField, LNoFieldOp, LGtText, LUnknownOp, LSupIndex, LEmpty}

AllOf(q) == PyDict("all" :> PyList(q))
AnyOf(q) == PyDict("any" :> PyList(q))

\* composites that occur as elements of other composites, and malformed trees
Inner ==
  { AllOf(<<>>), AnyOf(<<>>), AnyOf(<<LBadRegex, LNoField>>), AllOf(<<LEq42, LTitle>>),
    AllOf(<<AnyOf(<<LGtText, LEq42>>)>>) }
Malformed ==
  { PyDict("all" :> PyInt(5)), PyDict("any" :> PyNone), AllOf(<<PyStr("x")>>),
    AnyOf(<<PyInt(1)>>), PyDict("field" :> PyInt(3)) }

\* longest all/any list drawn
MaxItems == 2

Lists(S) == UNION {[1..n -> S] : n \in 0..MaxItems}

Trees ==
  Leaves \cup Inner \cup Malformed \cup
  {AllOf(q) : q \in Lists(Leaves \cup Inner)} \cup {AnyOf(q) : q \in Lists(Leaves \cup Inner)}

ThData == {EvEmpty, EvDoc42, EvDoc7, DataAB}

ThTriggers ==
  { TPlain, TSched, TCond42, TTitle, TBadRegex,
    Trigger("paperless", "document_created", LNoField),
    Trigger("paperless", "document_created", PyDict(EmptyDict)),
    Trigger("paperless", "document_created", AnyOf(<<>>)) }

ThEvents == Events \cup {EvNoSource, EvEmptySource, EvDeleted}

ThPaths ==
  { "a", "a.b", "a.b.1", "a.b.5", "a.b.x", "a.b.<sup2>", "a.b.1.0", "a.c", "a.c.d",
    "document_id", "payload.title", "payload.title.0", "payload.tags.1", "payload.tags.5",
    "payload.tags.x", "payload.tags.<sup2>" }

ThInputs ==
  {[fn |-> "evaluate_trigger", trigger |-> t, event_data |-> ev] :
     t \in ThTriggers, ev \in ThEvents} \cup
  {[fn |-> "evaluate_conditions", conditions |-> c, event_data |-> d] :
     c \in Trees, d \in ThData} \cup
  {[fn |-> "resolve_field", field_path |-> p, data |-> d] : p \in ThPaths, d \in ThData}

InitTrigger ==
  /\ th_input \in ThInputs
  /\ th_output = NoOutput
  /\ caller = NoCaller
  /\ lexconn = NoConnector
  /\ workflows = [w \in WorkflowIds |-> [enabled |-> FALSE, triggers |-> <<>>, actions |-> <<>>]]
  /\ lexoffice = InitLexoffice
  /\ paperless = InitPaperless
  /\ pc = [e \in Execs |-> "idle"]
  /\ wf_id = [e \in Execs |-> ""]
  /\ trigger_data = [e \in Execs |-> EmptyDict]
  /\ log_entry = [e \in Execs |-> NoLog]
  /\ trig_idx = [e \in Execs |-> 0]
  /\ trigger_matched = [e \in Execs |-> FALSE]
  /\ context = [e \in Execs |-> EmptyDict]
  /\ action_results = [e \in Execs |-> <<>>]
  /\ act_pos = [e \in Execs |-> 0]
  /\ pending = [e \in Execs |-> NoCall]
  /\ connectors = [e \in Execs |-> NoConnectors]
  /\ evaluated = [e \in Execs |-> <<>>]
  /\ dispatched = [e \in Execs |-> <<>>]
  /\ calls = [e \in Execs |-> <<>>]
  /\ raised = [e \in Execs |-> NoRaise]

\* await handler.evaluate_trigger(trigger, event_data)
CallEvaluateTrigger ==
  /\ th_output = NoOutput
  /\ th_input.fn = "evaluate_trigger"
  /\ th_output' = <<"outcome", EvaluateTrigger(th_input.trigger, th_input.event_data)>>
  /\ UNCHANGED <<caller, lexconn, th_input, vars>>

\* handler._evaluate_conditions(conditions, event_data)
CallEvaluateConditions ==
  /\ th_output = NoOutput
  /\ th_input.fn = "evaluate_conditions"
  /\ th_output' = <<"outcome", EvaluateConditions(Val(th_input.conditions), th_input.event_data)>>
  /\ UNCHANGED <<caller, lexconn, th_input, vars>>

\* TriggerHandler._resolve_field(field_path, data)
CallResolveField ==
  /\ th_output = NoOutput
  /\ th_input.fn = "resolve_field"
  /\ th_output' = <<"value", ResolveField(th_input.field_path, th_input.data)>>
  /\ UNCHANGED <<caller, lexconn, th_input, vars>>

NextTrigger == CallEvaluateTrigger \/ CallEvaluateConditions \/ CallResolveField

TriggerSpec == InitTrigger /\ [][NextTrigger]_<<th_input, th_output>>

(***************************************************************************)
(* Properties of execute_workflow.                                         *)
(***************************************************************************)
Terminal == {"skipped", "success", "error"}

\* the call is over: it returned its log entry, or an exception left it
Returned(e) == pc[e] = "done"
Ended(e) == pc[e] \in {"done", "raised"}
Exists(e) == wf_id[e] \in DOMAIN workflows

\* C1: every call of execute_workflow ends by returning a log record whose
\* status is skipped, success or error, whatever the workflow id, the event and
\* the outcome of the external operations.
C1_AlwaysReturnsTerminalRecord ==
  \A e \in Execs : Ended(e) => Returned(e) /\ log_entry[e].status \in Terminal

C3_MissingWorkflowEndsInError ==
  \A e \in Execs :
    (Ended(e) /\ ~Exists(e)) =>
      /\ Returned(e)
      /\ log_entry[e].status = "error"
      /\ log_entry[e].error_message = NotFoundMessage(wf_id[e])
      /\ dispatched[e] = <<>>

Enabled(e) == Exists(e) /\ Workflow(e).enabled
Started(e) == pc[e] # "idle"

C6_NoTriggersAlwaysRuns ==
  \A e \in Execs :
    (Started(e) /\ Enabled(e) /\ Workflow(e).triggers = <<>>) =>
      /\ log_entry[e].status # "skipped"
      /\ evaluated[e] = <<>>
      /\ Returned(e) =>
           \/ /\ log_entry[e].status = "success"
              /\ Len(dispatched[e]) = Len(Workflow(e).actions)
           \/ /\ log_entry[e].status = "error"
              /\ raised[e].pos >= 1
              /\ Len(dispatched[e]) = raised[e].pos

\* the empty event ran all the actions of a workflow without triggers
C6_Witness ==
  \E e \in Execs :
    /\ Returned(e) /\ Enabled(e) /\ Workflow(e).triggers = <<>>
    /\ trigger_data[e] = EmptyDict
    /\ Workflow(e).actions # <<>>
    /\ log_entry[e].status = "success"

\* C7: within one execution the dispatcher gets each action at most once, in
\* ascending sort_order with ties in stored order, and an action is dispatched
\* only after the one before it has returned: at most one is in flight.
C7_SequentialAscendingDispatch ==
  \A e \in Execs :
    IF ~(Started(e) /\ Exists(e)) THEN dispatched[e] = <<>>
    ELSE LET acts == Workflow(e).actions
             d == dispatched[e]
         IN /\ \A i \in 1..Len(d) : d[i] \in 1..Len(acts)
            /\ \A i, j \in 1..Len(d) : i < j => d[i] # d[j]
            /\ \A i \in 1..(Len(d) - 1) :
                 \/ acts[d[i]].sort_order < acts[d[i + 1]].sort_order
                 \/ acts[d[i]].sort_order = acts[d[i + 1]].sort_order /\ d[i] < d[i + 1]
            /\ Len(d) - Len(action_results[e]) \in {0, 1}
            /\ pc[e] = "await" => Len(d) = Len(action_results[e]) + 1
            /\ pc[e] = "actions" => Len(d) = Len(action_results[e])

\* three actions were dispatched, two of them with the same sort_order
C7_Witness ==
  \E e \in Execs :
    /\ Returned(e) /\ Exists(e) /\ Len(dispatched[e]) = 3
    /\ \E i, j \in 1..3 :
         i # j /\ Workflow(e).actions[i].sort_order = Workflow(e).actions[j].sort_order

\* every action of the workflow was dispatched and returned without raising
AllActionsReturned(e) ==
  /\ Len(dispatched[e]) = Len(Workflow(e).actions)
  /\ Len(action_results[e]) = Len(Workflow(e).actions)
  /\ raised[e].pos = 0

\* the trigger check let the run through to the actions
TriggerCheckPassed(e) ==
  Enabled(e) /\ (Workflow(e).triggers = <<>> \/ trigger_matched[e])

\* the output is the list of {action_type, result}, one entry per action in
\* the order the actions ran, and no error message is set
OutputIsResults(e) ==
  LET acts == Workflow(e).actions
      out == log_entry[e].output_data
  IN /\ log_entry[e].error_message = <<>>
     /\ Tag(out) = "dict" /\ DOMAIN Val(out) = {"actions"}
     /\ Tag(Val(out)["actions"]) = "list"
     /\ LET entries == Val(Val(out)["actions"]) IN
        /\ Len(entries) = Len(acts)
        /\ entries = action_results[e]
        /\ \A p \in 1..Len(entries) :
             /\ Tag(entries[p]) = "dict"
             /\ DOMAIN Val(entries[p]) = {"action_type", "result"}
             /\ Val(entries[p])["action_type"] = PyStr(acts[dispatched[e][p]].action_type)
             /\ Tag(Val(entries[p])["result"]) = "dict"

\* C8 as stated: an execution finishes in success if and only if every action
\* of the workflow was dispatched and returned without raising; the output is
\* then the list of results and the error message is unset.
C8_SuccessIffAllActionsReturned ==
  \A e \in Execs :
    (Returned(e) /\ Exists(e)) =>
      /\ log_entry[e].status = "success" <=> AllActionsReturned(e)
      /\ log_entry[e].status = "success" => OutputIsResults(e)

\* C8 amended: an execution finishes in success if and only if its trigger
\* check passed (the workflow is enabled and has no triggers or one matched)
\* and every action was dispatched and returned without raising; the output
\* is then the list of results, one per action in run order, and the error
\* message is unset.
C8_SuccessIffLoopCompleted ==
  \A e \in Execs :
    (Returned(e) /\ Exists(e)) =>
      /\ log_entry[e].status = "success" <=> (TriggerCheckPassed(e) /\ AllActionsReturned(e))
      /\ log_entry[e].status = "success" => OutputIsResults(e)

\* a successful run of at least two actions
C8_Witness ==
  \E e \in Execs :
    /\ Returned(e) /\ log_entry[e].status = "success"
    /\ Len(Workflow(e).actions) >= 2
    /\ Len(Val(Val(log_entry[e].output_data)["actions"])) = Len(Workflow(e).actions)

\* the external requests an action of the given type sends
ForwardOps(action_type) ==
  CASE action_type = "create_lexoffice_voucher" -> {"create_voucher"}
    [] action_type = "upload_to_paperless" -> {"upload_document"}
    [] action_type = "sync_contact" -> {"search_contacts", "create_contact"}
    [] action_type = "set_tag" -> {"get_document", "update_document"}
    [] action_type = "download_document" -> {"download_document", "get_document"}
    [] OTHER -> {}

\* the action that ran at position p of the execution
RanAt(e, p) == Workflow(e).actions[dispatched[e][p]]

\* C9: when the action at position k raises, the execution ends in status
\* error with the exception's message; the action is not dispatched again and
\* no action after position k is dispatched, nor any request sent for one.
C9_RaiseStopsRun ==
  \A e \in Execs :
    raised[e].pos >= 1 =>
      LET k == raised[e].pos IN
      /\ pc[e] \in {"finally", "done"}
      /\ Len(dispatched[e]) = k
      /\ \A i, j \in 1..k : i < j => dispatched[e][i] # dispatched[e][j]
      /\ \A i \in 1..Len(calls[e]) : calls[e][i].pos <= k
      /\ log_entry[e].status = "error"
      /\ IF ~HasHandler(RanAt(e, k).action_type)
           THEN log_entry[e].error_message = UnknownActionMessage(RanAt(e, k).action_type)
           ELSE /\ calls[e] # <<>>
                /\ calls[e][Len(calls[e])].pos = k
                /\ log_entry[e].error_message = HttpErrorMessage(calls[e][Len(calls[e])].op)

\* an action raised and the workflow has actions after it
C9_Witness ==
  \E e \in Execs :
    /\ Returned(e) /\ raised[e].pos >= 1
    /\ raised[e].pos < Len(Workflow(e).actions)

\* what the first action of the execution returned
FirstResult(e) == Val(Val(action_results[e][1])["result"])

\* what the first action created in the external services is still there
FirstEffectPresent(e) ==
  LET t == RanAt(e, 1).action_type
      r == FirstResult(e)
  IN /\ (t = "sync_contact" /\ Get(r, "created", PyBool(FALSE)) = PyBool(TRUE)) =>
          \E c \in lexoffice.contacts : PyStr(c.id) = r["lexoffice_contact_id"]
     /\ t = "create_lexoffice_voucher" =>
          \E v \in lexoffice.vouchers : PyStr(v.id) = Val(r["voucher"])["id"]
     /\ t = "upload_to_paperless" => paperless.uploads # {}

\* C10: with the first action returned and the second raising, the log has
\* status error, its output stays unset (only the error message is written),
\* what the first action did in the external service is still there, and the
\* execution sent no request but those of its two actions.
C10_FailureKeepsEffectsDropsResults ==
  \A e \in Execs :
    (Returned(e) /\ raised[e].pos = 2) =>
      /\ log_entry[e].status = "error"
      /\ log_entry[e].output_data = PyNone
      /\ log_entry[e].error_message = raised[e].message
      /\ log_entry[e].error_message # <<>>
      /\ Len(action_results[e]) = 1
      /\ FirstEffectPresent(e)
      /\ \A i \in 1..Len(calls[e]) :
           /\ calls[e][i].pos \in {1, 2}
           /\ calls[e][i].op \in ForwardOps(RanAt(e, calls[e][i].pos).action_type)

\* the first action created a contact, the second failed
C10_Witness ==
  \E e \in Execs :
    /\ Returned(e) /\ raised[e].pos = 2
    /\ RanAt(e, 1).action_type = "sync_contact"
    /\ Get(FirstResult(e), "created", PyBool(FALSE)) = PyBool(TRUE)
    /\ \E c \in lexoffice.contacts : PyStr(c.id) = FirstResult(e)["lexoffice_contact_id"]

\* C11: an action whose type is not in the registry gets no external request
\* and no result entry; the execution stops at it and ends in status error with
\* the message "Unknown action type: <type>", never in success or skipped.
C11_UnknownActionTypeIsFatal ==
  \A e \in Execs :
    \A p \in 1..Len(dispatched[e]) :
      ~HasHandler(RanAt(e, p).action_type) =>
        /\ p = Len(dispatched[e])
        /\ \A i \in 1..Len(calls[e]) : calls[e][i].pos # p
        /\ Len(action_results[e]) = p - 1
        /\ pc[e] \in {"finally", "done"}
        /\ log_entry[e].status = "error"
        /\ log_entry[e].error_message = UnknownActionMessage(RanAt(e, p).action_type)
        /\ log_entry[e].output_data = PyNone

\* an unknown type was dispatched as the second of three actions, after an
\* action that returned
C11_Witness ==
  \E e \in Execs :
    /\ Returned(e) /\ Len(dispatched[e]) = 2 /\ Len(Workflow(e).actions) = 3
    /\ ~HasHandler(RanAt(e, 2).action_type)
    /\ Len(action_results[e]) = 1

\* the connector an external operation goes through
ConnectorOf(op) ==
  IF op \in {"create_voucher", "search_contacts", "create_contact"} THEN "lexoffice"
  ELSE "paperless"

\* C12: when execute_workflow is over, on whatever path, none of the
\* connectors of that execution is left open; a request is only sent through
\* an open connector; a closed connector is never used or reopened, and a
\* returned execution sends no further request.
C12_ConnectorsClosedBeforeReturn ==
  [][\A e \in Execs :
       /\ pc'[e] \in {"done", "raised"} =>
            \A c \in DOMAIN connectors'[e] : connectors'[e][c] # "open"
       /\ calls'[e] # calls[e] =>
            /\ Len(calls'[e]) = Len(calls[e]) + 1
            /\ connectors'[e][ConnectorOf(calls'[e][Len(calls'[e])].op)] = "open"
       /\ \A c \in DOMAIN connectors[e] :
            connectors[e][c] = "closed" =>
              connectors'[e][c] = "closed" /\ calls'[e] = calls[e]
       /\ pc[e] = "done" => calls'[e] = calls[e] /\ connectors'[e] = connectors[e]
    ]_vars

\* an execution that ended in error had opened both connectors and sent
\* requests; both are closed at its return
C12_Witness ==
  \E e \in Execs :
    /\ Returned(e) /\ log_entry[e].status = "error"
    /\ calls[e] # <<>>
    /\ \A c \in DOMAIN connectors[e] : connectors[e][c] = "closed"

\* the result map of the n-th action that returned
ResultAt(e, n) == Val(Val(action_results[e][n])["result"])

\* the context overwritten key by key with a result map
Overwritten(ctx, r) ==
  [k \in (DOMAIN ctx) \cup (DOMAIN r) |-> IF k \in DOMAIN r THEN r[k] ELSE ctx[k]]

\* the keys a handler wrote into the context itself: a download that took
\* place left the file's content and name there
HandlerWrote(ctx, r) ==
  IF Get(r, "downloaded", PyBool(FALSE)) = PyBool(TRUE)
    THEN [k \in (DOMAIN ctx) \cup {"file_content", "filename"} |->
            IF k = "file_content" THEN DocContent(42)
            ELSE IF k = "filename" THEN r["filename"] ELSE ctx[k]]
    ELSE ctx

\* the event, overwritten in turn with the first n results
RECURSIVE ContextAfter(_, _)
ContextAfter(e, n) ==
  IF n = 0 THEN trigger_data[e]
  ELSE Overwritten(HandlerWrote(ContextAfter(e, n - 1), ResultAt(e, n)), ResultAt(e, n))

\* the action loop of the execution has been entered
InActions(e) ==
  \/ pc[e] \in {"actions", "await"}
  \/ pc[e] \in {"finally", "done"} /\ (log_entry[e].status = "success" \/ raised[e].pos >= 1)

\* C13: from the start of the action loop on, the context is the event
\* overwritten key by key with the results of the actions that returned so
\* far, in order, plus the keys a handler wrote itself; so action k is
\* dispatched on the results of actions 1..k-1, and while it runs nothing of
\* its own result is in the context yet.  The event itself is not changed.
C13_ContextIsEventPlusResults ==
  \A e \in Execs :
    /\ InActions(e) =>
          /\ context[e] = ContextAfter(e, Len(action_results[e]))
          /\ Len(dispatched[e]) - Len(action_results[e]) \in {0, 1}
    /\ (Started(e) /\ ~InActions(e)) => context[e] = EmptyDict
    /\ Started(e) => log_entry[e].input_data = trigger_data[e]

\* one run replaced a key of the event by an action's result, another run
\* replaced a key of an earlier result by a later result
C13_Witness ==
  /\ \E e \in Execs :
       /\ Returned(e) /\ Len(action_results[e]) = 3
       /\ "lexoffice_contact_id" \in DOMAIN trigger_data[e]
       /\ context[e]["lexoffice_contact_id"] # trigger_data[e]["lexoffice_contact_id"]
  /\ \E e \in Execs :
       /\ Returned(e) /\ Len(action_results[e]) = 3
       /\ "reason" \in DOMAIN ResultAt(e, 1) /\ "reason" \in DOMAIN ResultAt(e, 3)
       /\ ResultAt(e, 1)["reason"] # ResultAt(e, 3)["reason"]
       /\ context[e]["reason"] = ResultAt(e, 3)["reason"]

\* what evaluate_trigger gives for the i-th stored trigger of the execution's
\* workflow on the execution's event
OutcomeOf(e, i) == EvaluateTrigger(Workflow(e).triggers[i], trigger_data[e])

\* C14: for an enabled workflow the triggers are evaluated in stored order,
\* each at most once, none after the first that matches; and when the
\* execution has returned its actions ran if and only if the trigger list is
\* empty or some trigger of the list matches the event.
C14_FirstMatchDecides ==
  \A e \in Execs :
    (Started(e) /\ Enabled(e)) =>
      /\ \A i \in 1..Len(evaluated[e]) : evaluated[e][i] = i
      /\ Len(evaluated[e]) <= Len(Workflow(e).triggers)
      /\ \A i \in 1..(Len(evaluated[e]) - 1) : OutcomeOf(e, i) # "true"
      /\ Returned(e) =>
           (InActions(e) <=>
              \/ Workflow(e).triggers = <<>>
              \/ \E i \in 1..Len(Workflow(e).triggers) : OutcomeOf(e, i) = "true")

(***************************************************************************)
(* Properties of the TriggerHandler methods, under TriggerSpec.            *)
(***************************************************************************)
Called(fn) == th_input.fn = fn /\ th_output # NoOutput

\* the event names a source / an event type: the key is there and its value
\* is not empty
Names(ev, key) == key \in DOMAIN ev /\ ev[key] \notin {PyNone, PyStr("")}

SourceFits(t, ev) == ~Names(ev, "source") \/ ev["source"] = PyStr(t.source)
TypeFits(t, ev) == ~Names(ev, "event_type") \/ ev["event_type"] = PyStr(t.event_type)
NoTree(t) == t.conditions \in {PyNone, PyDict(EmptyDict)}

\* C15: evaluate_trigger returns true exactly when the event names no source
\* or the trigger's, names no event type or the trigger's, and the trigger has
\* no condition tree or its tree evaluates true on the whole event; a source
\* or event type that differs gives false whatever the conditions are.
C15_EvaluateTriggerIsConjunction ==
  Called("evaluate_trigger") =>
    LET t == th_input.trigger
        ev == th_input.event_data
    IN /\ th_output = <<"outcome", "true">> <=>
            /\ SourceFits(t, ev)
            /\ TypeFits(t, ev)
            /\ NoTree(t) \/ EvaluateConditions(Val(t.conditions), ev) = "true"
       /\ (~SourceFits(t, ev) \/ ~TypeFits(t, ev)) => th_output = <<"outcome", "false">>

\* false on an event type that differs, for a trigger whose condition tree
\* on that event does not evaluate to false
C15_Witness ==
  /\ Called("evaluate_trigger")
  /\ th_output = <<"outcome", "false">>
  /\ SourceFits(th_input.trigger, th_input.event_data)
  /\ ~TypeFits(th_input.trigger, th_input.event_data)
  /\ ~NoTree(th_input.trigger)
  /\ EvaluateConditions(Val(th_input.trigger.conditions), th_input.event_data) # "false"

\* the tree is {key: [c1..cn]} with every ci a mapping
IsComposite(c, key) ==
  /\ Tag(c) = "dict" /\ DOMAIN Val(c) = {key}
  /\ Tag(Val(c)[key]) = "list"
  /\ \A i \in 1..Len(Val(Val(c)[key])) : Tag(Val(Val(c)[key])[i]) = "dict"

\* what the i-th sub-condition of the composite evaluates to on the data
SubOutcome(c, key, i, data) == EvaluateConditions(Val(Val(Val(c)[key])[i]), data)

\* C16: {all: [c1..cn]} evaluates true exactly when every ci evaluates true,
\* and {any: [c1..cn]} exactly when at least one ci evaluates true, the ci
\* being composites themselves or leaves; {all: []} is true, {any: []} false.
C16_AllAnySemantics ==
  Called("evaluate_conditions") =>
    LET c == th_input.conditions
        d == th_input.event_data
    IN /\ IsComposite(c, "all") =>
            (th_output = <<"outcome", "true">> <=>
               \A i \in 1..Len(Val(Val(c)["all"])) : SubOutcome(c, "all", i, d) = "true")
       /\ IsComposite(c, "any") =>
            (th_output = <<"outcome", "true">> <=>
               \E i \in 1..Len(Val(Val(c)["any"])) : SubOutcome(c, "any", i, d) = "true")
       /\ c = AllOf(<<>>) => th_output = <<"outcome", "true">>
       /\ c = AnyOf(<<>>) => th_output = <<"outcome", "false">>

\* a leaf that has no field key
IsFieldlessLeaf(c) == Tag(c) = "dict" /\ DOMAIN Val(c) \cap {"all", "any", "field"} = {}

\* C17: a leaf without a field key evaluates true on every data value,
\* whatever its operator and expected value; a trigger whose condition is
\* such a leaf matches every event that passes the source and type checks.
C17_FieldlessLeafPasses ==
  /\ (Called("evaluate_conditions") /\ IsFieldlessLeaf(th_input.conditions))
       => th_output = <<"outcome", "true">>
  /\ (/\ Called("evaluate_trigger")
      /\ IsFieldlessLeaf(th_input.trigger.conditions)
      /\ th_input.trigger.conditions # PyDict(EmptyDict)
      /\ SourceFits(th_input.trigger, th_input.event_data)
      /\ TypeFits(th_input.trigger, th_input.event_data))
       => th_output = <<"outcome", "true">>

\* true for a leaf without field whose operator and value, given a field
\* with text in it, would raise
C17_Witness ==
  /\ Called("evaluate_conditions")
  /\ th_input.conditions = LNoField
  /\ th_input.event_data = EvDoc42
  /\ th_output = <<"outcome", "true">>
  /\ EvaluateConditions(Val(LBadRegex), EvDoc42) = "raise"

\* the index a numeric segment denotes (superscript two denotes 2)
IndexOf(seg) == IF seg = "<sup2>" THEN 2 ELSE DigitValue[seg]

\* one segment of the walk, as the claim describes it
StepInto(cur, seg) ==
  IF Tag(cur) = "dict" THEN (IF seg \in DOMAIN Val(cur) THEN Val(cur)[seg] ELSE PyNone)
  ELSE IF Tag(cur) = "list" /\ IsDigit(seg)
    THEN (IF IndexOf(seg) + 1 \in 1..Len(Val(cur)) THEN Val(cur)[IndexOf(seg) + 1] ELSE PyNone)
  ELSE PyNone

RECURSIVE Walk(_, _)
Walk(segs, cur) == IF segs = <<>> THEN cur ELSE Walk(Tail(segs), StepInto(cur, Head(segs)))

\* C18: resolving a dot-separated path walks one segment at a time: a
\* mapping gives the value of that key or absent, a sequence gives the
\* element at a numeric segment's index or absent when out of range, and a
\* non-numeric segment on a sequence or any segment on a scalar gives absent;
\* on {"a": {"b": [10, 20]}} a.b.1 gives 20, a.b.5 absent and a.c absent.
C18_ResolveFieldWalksSegments ==
  Called("resolve_field") =>
    /\ th_output = <<"value", Walk(SplitDots(th_input.field_path), PyDict(th_input.data))>>
    /\ (th_input.data = DataAB /\ th_input.field_path = "a.b.1") => th_output = <<"value", PyInt(20)>>
    /\ (th_input.data = DataAB /\ th_input.field_path = "a.b.5") => th_output = <<"value", PyNone>>
    /\ (th_input.data = DataAB /\ th_input.field_path = "a.c") => th_output = <<"value", PyNone>>

\* C19: evaluating a condition tree, and a trigger with it, gives true or
\* false on every tree and every event: no exception leaves the evaluation.
C19_EvaluationIsTotal ==
  (Called("evaluate_conditions") \/ Called("evaluate_trigger")) =>
    th_output \in {<<"outcome", "true">>, <<"outcome", "false">>}

\* the key is missing from the map, or its value is empty
Missing(m, key) == key \notin DOMAIN m \/ m[key] \in {PyNone, PyStr(""), PyInt(0)}

\* the handler of the action finds no identifier to work on, neither in the
\* parameters nor in the context
LacksInput(action, ctx) ==
  LET p == IF action.parameters = PyNone THEN EmptyDict ELSE Val(action.parameters)
      lacks(key) == Missing(p, key) /\ Missing(ctx, key)
  IN CASE action.action_type = "sync_contact" -> lacks("correspondent_name")
       [] action.action_type = "set_tag" -> lacks("document_id") \/ lacks("tag_id")
       [] action.action_type = "download_document" -> lacks("document_id")
       [] OTHER -> FALSE

\* the flag by which a handler reports whether it did its work
DoneFlag(action_type) ==
  CASE action_type = "sync_contact" -> "synced"
    [] action_type = "set_tag" -> "tagged"
    [] action_type = "download_document" -> "downloaded"

\* C20: a sync_contact without correspondent name, a set_tag without document
\* id or tag id and a download_document without document id send no request;
\* the step that dispatches such an action records its result, with the done
\* flag false and a reason, merges it, leaves the log in status running and
\* moves on to the next action.
C20_MissingInputIsNotFatal ==
  [][\A e \in Execs :
       (/\ pc[e] = "actions" /\ dispatched'[e] # dispatched[e]
        /\ LacksInput(CurrentAction(e), context[e])) =>
         LET t == CurrentAction(e).action_type IN
         /\ calls'[e] = calls[e] /\ pending'[e] = NoCall
         /\ lexoffice' = lexoffice /\ paperless' = paperless
         /\ Len(action_results'[e]) = Len(action_results[e]) + 1
         /\ LET entry == Val(action_results'[e][Len(action_results'[e])]) IN
            /\ entry["action_type"] = PyStr(t)
            /\ DOMAIN Val(entry["result"]) = {DoneFlag(t), "reason"}
            /\ Val(entry["result"])[DoneFlag(t)] = PyBool(FALSE)
            /\ context'[e][DoneFlag(t)] = PyBool(FALSE)
         /\ pc'[e] = "actions" /\ act_pos'[e] = act_pos[e] + 1
         /\ log_entry'[e] = log_entry[e] /\ log_entry[e].status = "running"
         /\ raised'[e] = raised[e]
    ]_vars

\* a run ended in success although its first action had no correspondent
\* name and its third no document id; only the second sent a request
C20_Witness ==
  \E e \in Execs :
    /\ Returned(e) /\ log_entry[e].status = "success"
    /\ Len(action_results[e]) = 3
    /\ ResultAt(e, 1) = ("synced" :> PyBool(FALSE)) @@
                        ("reason" :> PyStr("No correspondent name provided"))
    /\ ResultAt(e, 3) = ("tagged" :> PyBool(FALSE)) @@
                        ("reason" :> PyStr("Missing document_id or tag_id"))
    /\ \A i \in 1..Len(calls[e]) : calls[e][i].pos = 2

(***************************************************************************)
(* The callers of execute_workflow that run several executions in one      *)
(* database session: the scheduled sweep (engine/scheduler.py) and the     *)
(* paperless webhook (api/webhooks.py).  Each runs the executor above,     *)
(* one workflow after the other.                                           *)
(***************************************************************************)
SweepIds == {"w1", "w2"}
\* the order in which a SELECT hands out the rows
IdOrder == <<"w1", "w2">>

ExecutorIdle ==
  /\ lexoffice = InitLexoffice
  /\ paperless = InitPaperless
  /\ pc = [e \in Execs |-> "idle"]
  /\ wf_id = [e \in Execs |-> ""]
  /\ trigger_data = [e \in Execs |-> EmptyDict]
  /\ log_entry = [e \in Execs |-> NoLog]
  /\ trig_idx = [e \in Execs |-> 0]
  /\ trigger_matched = [e \in Execs |-> FALSE]
  /\ context = [e \in Execs |-> EmptyDict]
  /\ action_results = [e \in Execs |-> <<>>]
  /\ act_pos = [e \in Execs |-> 0]
  /\ pending = [e \in Execs |-> NoCall]
  /\ connectors = [e \in Execs |-> NoConnectors]
  /\ evaluated = [e \in Execs |-> <<>>]
  /\ dispatched = [e \in Execs |-> <<>>]
  /\ calls = [e \in Execs |-> <<>>]
  /\ raised = [e \in Execs |-> NoRaise]

\* the steps of an execution once execute_workflow was called
ExecStep(e) ==
  \/ ExecLoad(e)
  \/ ExecTrigger(e)
  \/ ExecAfterTriggers(e)
  \/ ExecDispatch(e)
  \/ ExtSucceed(e)
  \/ ExtFail(e)
  \/ ExecSuccess(e)
  \/ ExecFinally(e)

\* execute_workflow was called for the workflow
InFlight(w) == \E e \in Execs : wf_id[e] = w /\ pc[e] # "idle"

Idle(kind, secret) ==
  [kind |-> kind, pc |-> "idle", secret |-> secret, request |-> <<>>, event |-> EmptyDict,
   store |-> <<>>, todo |-> <<>>, executed |-> 0, persisted |-> {}]

\* DELETE /api/workflows/{id} from another session: the row is gone
DeleteWorkflow(w) ==
  /\ w \in DOMAIN workflows
  /\ ~InFlight(w)
  /\ workflows' = [x \in DOMAIN workflows \ {w} |-> workflows[x]]
  /\ UNCHANGED <<caller, lexconn, th_input, th_output, lexoffice, paperless, pc, wf_id,
                 trigger_data, log_entry, trig_idx, trigger_matched, context,
                 action_results, act_pos, pending, connectors, evaluated, dispatched,
                 calls, raised>>

\* the caller's own steps leave the executions as they are
CallerOnly ==
  UNCHANGED <<lexconn, th_input, th_output, workflows, lexoffice, paperless, pc, wf_id,
              trigger_data, log_entry, trig_idx, trigger_matched, context,
              action_results, act_pos, pending, connectors, evaluated, dispatched,
              calls, raised>>

(* run_scheduled_workflows *)
SweepTriggerLists == {<<>>, <<TSched>>, <<TPlain>>, <<TPlain, TSched>>}
SweepActionLists == {<<>>, <<AVoucher(1)>>}
SweepDefs == [enabled : BOOLEAN, triggers : SweepTriggerLists, actions : SweepActionLists]

InitSweep ==
  /\ workflows \in [SweepIds -> SweepDefs]
  /\ ExecutorIdle
  /\ caller = Idle("sweep", "")
  /\ lexconn = NoConnector
  /\ th_input = NoInput
  /\ th_output = NoOutput

\* schedule_triggers = [t for t in workflow.triggers if t.source == "schedule"]
HasScheduleTrigger(workflow) ==
  \E i \in DOMAIN workflow.triggers : workflow.triggers[i].source = "schedule"

\* select(Workflow).where(enabled).join(Workflow.triggers), unique()
SelectEnabledWithTriggers(store) ==
  LET hit(w) == w \in DOMAIN store /\ store[w].enabled /\ store[w].triggers # <<>>
  IN SelectSeq(IdOrder, hit)

\* lines 26-33: open the session and select the workflows
SweepSelect ==
  /\ caller.kind = "sweep" /\ caller.pc = "idle"
  /\ caller' = [caller EXCEPT !.pc = "loop", !.store = workflows,
                              !.todo = SelectEnabledWithTriggers(workflows)]
  /\ CallerOnly

\* lines 36-38: a workflow without a schedule trigger is passed over
SweepSkip ==
  /\ caller.kind = "sweep" /\ caller.pc = "loop" /\ caller.todo # <<>>
  /\ ~HasScheduleTrigger(caller.store[Head(caller.todo)])
  /\ caller' = [caller EXCEPT !.todo = Tail(@)]
  /\ CallerOnly

\* lines 41-46: a new executor, and execute_workflow is called
SweepExecute ==
  /\ caller.kind = "sweep" /\ caller.pc = "loop" /\ caller.todo # <<>>
  /\ HasScheduleTrigger(caller.store[Head(caller.todo)])
  /\ ~InFlight(Head(caller.todo))
  /\ \E e \in Execs : ExecStart(e, Head(caller.todo), EvSched)

\* lines 46-47: execute_workflow returned; executed += 1
SweepReturned ==
  /\ caller.kind = "sweep" /\ caller.pc = "loop" /\ caller.todo # <<>>
  /\ \E e \in Execs : wf_id[e] = Head(caller.todo) /\ pc[e] = "done"
  /\ caller' = [caller EXCEPT !.todo = Tail(@), !.executed = @ + 1]
  /\ CallerOnly

\* an exception left execute_workflow: nothing catches it in the loop, the
\* session is closed without a commit and the task fails
SweepRaised ==
  /\ caller.kind = "sweep" /\ caller.pc = "loop" /\ caller.todo # <<>>
  /\ \E e \in Execs : wf_id[e] = Head(caller.todo) /\ pc[e] = "raised"
  /\ caller' = [caller EXCEPT !.pc = "aborted"]
  /\ CallerOnly

\* lines 49-52: one commit after the loop
SweepCommit ==
  /\ caller.kind = "sweep" /\ caller.pc = "loop" /\ caller.todo = <<>>
  /\ caller' = [caller EXCEPT !.pc = "done", !.persisted = {e \in Execs : pc[e] = "done"}]
  /\ CallerOnly

NextSweep ==
  \/ SweepSelect
  \/ SweepSkip
  \/ SweepExecute
  \/ SweepReturned
  \/ SweepRaised
  \/ SweepCommit
  \/ \E w \in SweepIds : DeleteWorkflow(w)
  \/ \E e \in Execs : ExecStep(e)

allvars == <<vars, caller, lexconn, th_input, th_output>>

SweepSpec == InitSweep /\ [][NextSweep]_allvars

(* POST /api/webhooks/paperless *)
Secrets == {"", "s3cret"}

\* request bodies, and the signing keys a sender may hold
Bodies == {"created-42", "id-7", "not-json"}
SenderKeys == {"s3cret", "other"}

\* request.json(): the payload of a body, or an exception
ParseJson(body) ==
  CASE body = "created-42" ->
         PyDict(("event" :> PyStr("document_created")) @@ ("document_id" :> PyInt(42)))
    [] body = "id-7" -> PyDict("id" :> PyInt(7))
    [] OTHER -> PyRaise

\* hmac.new(secret, payload, sha256).hexdigest(): one digest per key and payload
Hmac(secret, payload) ==
  CASE secret = "s3cret" /\ payload = "created-42" -> "3f1a"
    [] secret = "s3cret" /\ payload = "id-7" -> "9c40"
    [] secret = "s3cret" /\ payload = "not-json" -> "e2b7"
    [] secret = "other" /\ payload = "created-42" -> "70d5"
    [] secret = "other" /\ payload = "id-7" -> "a8e1"
    [] secret = "other" /\ payload = "not-json" -> "14cf"

\* the X-Webhook-Signature header: absent, empty, or a digest
Signatures ==
  {PyNone, PyStr("")} \cup {PyStr(Hmac(k, b)) : k \in SenderKeys, b \in Bodies}
Requests == [body : Bodies, signature : Signatures]

HookTriggerLists == {<<TPlain>>, <<TSched>>}
HookActionLists == {<<>>, <<ASetTag(0)>>}
HookDefs == [enabled : BOOLEAN, triggers : HookTriggerLists, actions : HookActionLists]

InitWebhook ==
  /\ workflows \in [SweepIds -> HookDefs]
  /\ ExecutorIdle
  /\ caller \in {Idle("webhook", s) : s \in Secrets}
  /\ lexconn = NoConnector
  /\ th_input = NoInput
  /\ th_output = NoOutput

\* _verify_signature
VerifySignature(payload, secret, signature) ==
  IF secret = "" THEN TRUE ELSE Hmac(secret, payload) = signature

\* lines 83-85, for the request body b: raise HTTPException(403)
SignatureRefused(b, secret, signature) ==
  /\ secret # "" /\ Truthy(signature)
  /\ ~VerifySignature(b, secret, Val(signature))

\* _dispatch_event, lines 41-51: enabled workflows with a trigger for the event
SelectMatching(store, source, event_type) ==
  LET hit(w) ==
        /\ w \in DOMAIN store /\ store[w].enabled
        /\ \E i \in DOMAIN store[w].triggers :
             /\ store[w].triggers[i].source = source
             /\ PyStr(store[w].triggers[i].event_type) = event_type
  IN SelectSeq(IdOrder, hit)

\* lines 93-99 and 53-57: the event handed to the executions
EventOf(payload) ==
  ("source" :> PyStr("paperless")) @@
  ("event_type" :> Get(Val(payload), "event",
                       Get(Val(payload), "event_type", PyStr("document_created")))) @@
  ("document_id" :> PyOr(Get(Val(payload), "document_id", PyNone),
                         Get(Val(payload), "id", PyNone))) @@
  ("payload" :> payload)

\* lines 81-101 and 41-57: the request is refused, or its workflows are selected
WebhookReceive(req) ==
  /\ caller.kind = "webhook" /\ caller.pc = "idle"
  /\ IF SignatureRefused(req.body, caller.secret, req.signature)
       THEN caller' = [caller EXCEPT !.pc = "refused", !.request = req]
       ELSE IF ParseJson(req.body) = PyRaise
         THEN caller' = [caller EXCEPT !.pc = "invalid", !.request = req]
         ELSE caller' =
                [caller EXCEPT !.pc = "loop", !.request = req, !.store = workflows,
                               !.event = EventOf(ParseJson(req.body)),
                               !.todo = SelectMatching(workflows, "paperless",
                                          EventOf(ParseJson(req.body))["event_type"])]
  /\ CallerOnly

\* lines 60-62: a new executor, and execute_workflow is called with the event
WebhookExecute ==
  /\ caller.kind = "webhook" /\ caller.pc = "loop" /\ caller.todo # <<>>
  /\ ~InFlight(Head(caller.todo))
  /\ \E e \in Execs : ExecStart(e, Head(caller.todo), caller.event)

\* lines 62-68: execute_workflow returned; results.append(...)
WebhookReturned ==
  /\ caller.kind = "webhook" /\ caller.pc = "loop" /\ caller.todo # <<>>
  /\ \E e \in Execs : wf_id[e] = Head(caller.todo) /\ pc[e] = "done"
  /\ caller' = [caller EXCEPT !.todo = Tail(@), !.executed = @ + 1]
  /\ CallerOnly

\* an exception left execute_workflow: the request fails, the session is rolled back
WebhookRaised ==
  /\ caller.kind = "webhook" /\ caller.pc = "loop" /\ caller.todo # <<>>
  /\ \E e \in Execs : wf_id[e] = Head(caller.todo) /\ pc[e] = "raised"
  /\ caller' = [caller EXCEPT !.pc = "aborted"]
  /\ CallerOnly

\* lines 102-108: flush, answer "accepted"; the session is committed
WebhookRespond ==
  /\ caller.kind = "webhook" /\ caller.pc = "loop" /\ caller.todo = <<>>
  /\ caller' = [caller EXCEPT !.pc = "done", !.persisted = {e \in Execs : pc[e] = "done"}]
  /\ CallerOnly

NextWebhook ==
  \/ \E req \in Requests : WebhookReceive(req)
  \/ WebhookExecute
  \/ WebhookReturned
  \/ WebhookRaised
  \/ WebhookRespond
  \/ \E w \in SweepIds : DeleteWorkflow(w)
  \/ \E e \in Execs : ExecStep(e)

WebhookSpec == InitWebhook /\ [][NextWebhook]_allvars

(***************************************************************************)
(* One LexofficeConnector and its rate limit (connectors/lexoffice.py).    *)
(* Time is counted in tenths of a second; a request is sent when the       *)
(* connector hands it to its HTTP client.                                  *)
(***************************************************************************)
\* _RATE_LIMIT_INTERVAL = 0.5 s
RateLimitInterval == 5

\* the clock is followed up to this time, and this many requests are issued
MaxClock == 13
MaxRequests == 3

\* the operations of the connector the engine uses, and the file upload
LexOps == {"search_contacts", "create_contact", "create_voucher", "upload_file_to_voucher"}

InitThrottle ==
  /\ lexconn \in {[pc |-> "idle", op |-> "", now |-> t, last |-> 0, wake |-> 0, sent |-> <<>>] :
                    t \in {0, 2, RateLimitInterval + 1}}
  /\ workflows = [w \in WorkflowIds |-> [enabled |-> FALSE, triggers |-> <<>>, actions |-> <<>>]]
  /\ ExecutorIdle
  /\ caller = NoCaller
  /\ th_input = NoInput
  /\ th_output = NoOutput

\* the connector never waits
SleepTime_Never(now, last) == 0

\* _throttle, lines 47-50: the time to sleep before the request may go out
SleepTime(now, last) ==
  IF now - last < RateLimitInterval THEN RateLimitInterval - (now - last) ELSE 0

\* line 51, then the request is handed to the HTTP client (line 64 or 152)
Send(c) ==
  [c EXCEPT !.pc = "awaiting", !.last = c.now,
            !.sent = Append(@, [at |-> c.now, op |-> c.op])]

ConnectorOnly == UNCHANGED <<vars, caller, th_input, th_output>>

\* time.monotonic() moves on
Tick ==
  /\ lexconn.now < MaxClock
  /\ lexconn' = [lexconn EXCEPT !.now = @ + 1]
  /\ ConnectorOnly

\* an operation is called: _throttle either sleeps or lets the request out
LexCall(op) ==
  /\ lexconn.pc = "idle"
  /\ Len(lexconn.sent) < MaxRequests
  /\ lexconn' =
       IF SleepTime(lexconn.now, lexconn.last) > 0
         THEN [lexconn EXCEPT !.pc = "sleeping", !.op = op,
                              !.wake = lexconn.now + SleepTime(lexconn.now, lexconn.last)]
         ELSE Send([lexconn EXCEPT !.op = op])
  /\ ConnectorOnly

\* asyncio.sleep is over, not before the time asked for
LexWake ==
  /\ lexconn.pc = "sleeping"
  /\ lexconn.now >= lexconn.wake
  /\ lexconn' = Send(lexconn)
  /\ ConnectorOnly

\* the answer is there; upload_file_to_voucher notes the time again (line 160)
LexResponse ==
  /\ lexconn.pc = "awaiting"
  /\ lexconn' = [lexconn EXCEPT !.pc = "idle",
                   !.last = IF lexconn.op = "upload_file_to_voucher" THEN lexconn.now ELSE @]
  /\ ConnectorOnly

\* the HTTP client raised instead of answering
LexTransportError ==
  /\ lexconn.pc = "awaiting"
  /\ lexconn' = [lexconn EXCEPT !.pc = "idle"]
  /\ ConnectorOnly

NextThrottle ==
  \/ Tick
  \/ \E op \in LexOps : LexCall(op)
  \/ LexWake
  \/ LexResponse
  \/ LexTransportError

ThrottleSpec == InitThrottle /\ [][NextThrottle]_allvars

(***************************************************************************)
(* Executions that tag the same document: set_tag actions with several     *)
(* tag ids, run by overlapping executions on one document service.         *)
(***************************************************************************)
ASetTagId(tag, so) == Action("set_tag", PyDict("tag_id" :> PyInt(tag)), so)

TagActionLists ==
  {<<ASetTagId(5, 0)>>, <<ASetTagId(6, 0)>>, <<ASetTagId(1, 0)>>,
   <<ASetTagId(6, 0), ASetTagId(5, 1)>>}
TagDefs == [enabled : {TRUE}, triggers : {<<TPlain>>}, actions : TagActionLists]

InitTagging ==
  /\ workflows \in [SweepIds -> TagDefs]
  /\ ExecutorIdle
  /\ caller = NoCaller
  /\ lexconn = NoConnector
  /\ th_input = NoInput
  /\ th_output = NoOutput

NextTagging ==
  \E e \in Execs :
    \/ \E wid \in SweepIds : ExecStart(e, wid, EvDoc42)
    \/ ExecStep(e)

TaggingSpec == InitTagging /\ [][NextTagging]_allvars

(***************************************************************************)
(* Where status "error" comes from.                                        *)
(***************************************************************************)
\* the exception the executor caught came out of the action at sorted position p
UnknownTypeAt(e, p) ==
  /\ p \in 1..Len(Workflow(e).actions)
  /\ ~HasHandler(Workflow(e).actions[SortOrder(Workflow(e).actions)[p]].action_type)
  /\ raised[e].message =
       UnknownActionMessage(Workflow(e).actions[SortOrder(Workflow(e).actions)[p]].action_type)
CallFailedAt(e, p) ==
  /\ p \in 1..Len(Workflow(e).actions)
  /\ calls[e] # <<>>
  /\ calls[e][Len(calls[e])].pos = p
  /\ raised[e].message = HttpErrorMessage(calls[e][Len(calls[e])].op)

\* C21: an execution of a workflow that exists ends in status error only if a
\* dispatched action had an unknown action type or an external operation called
\* by an action failed; a disabled workflow, a trigger that does not match and
\* a handler's missing-identifier result never give status error.
C21_ErrorOnlyFromActions ==
  \A e \in Execs :
    (Exists(e) /\ Returned(e) /\ log_entry[e].status = "error") =>
      /\ ~IsDisabled(Workflow(e))
      /\ dispatched[e] # <<>>
      /\ UnknownTypeAt(e, raised[e].pos) \/ CallFailedAt(e, raised[e].pos)

(***************************************************************************)
(* Properties of the scheduled sweep, under SweepSpec.                     *)
(***************************************************************************)
\* the workflow was enabled and had a schedule trigger when the sweep selected
Qualifies(w) ==
  w \in DOMAIN caller.store /\ caller.store[w].enabled /\ HasScheduleTrigger(caller.store[w])
RunsOf(w) == {e \in Execs : wf_id[e] = w /\ pc[e] # "idle"}
SweepOver == caller.kind = "sweep" /\ caller.pc \in {"done", "aborted"}

\* C22: when a scheduled sweep is over, every enabled workflow with a schedule
\* trigger (that still has its row) has exactly one execution, whose log record
\* has a terminal status and is persisted, and the other workflows have none;
\* this holds also when the execution of another workflow of the sweep failed,
\* in an action or in the store.
C22_SweepRunsEachScheduledWorkflowOnce ==
  SweepOver =>
    \A w \in SweepIds :
      /\ (Qualifies(w) /\ w \in DOMAIN workflows) =>
           \E e \in caller.persisted :
             RunsOf(w) = {e} /\ pc[e] = "done" /\ log_entry[e].status \in Terminal
      /\ ~Qualifies(w) => RunsOf(w) = {}

(***************************************************************************)
(* Properties of the paperless webhook, under WebhookSpec.                 *)
(***************************************************************************)
\* the request carries the HMAC-SHA256 of its body under the configured secret
SignedBy(req, secret) == req.signature = PyStr(Hmac(secret, req.body))

\* C30: with a webhook secret configured, an execution is started for a
\* request only if the request carries the HMAC-SHA256 of its body under that
\* secret; a request with a wrong signature or with none starts no execution.
C30_UnsignedRequestStartsNothing ==
  (caller.kind = "webhook" /\ caller.secret # "" /\ \E e \in Execs : pc[e] # "idle") =>
    SignedBy(caller.request, caller.secret)

(***************************************************************************)
(* Executions that overlap.                                                *)
(***************************************************************************)
\* where the execution stands: a step of the execution changes it
Position(e) == <<pc[e], trig_idx[e], trigger_matched[e], act_pos[e], pending[e]>>

\* the keys the execution's own event and own results brought
OwnKeys(e) ==
  DOMAIN trigger_data[e] \cup
  UNION {DOMAIN ResultAt(e, n) : n \in 1..Len(action_results[e])} \cup
  (IF \E n \in 1..Len(action_results[e]) :
        Get(ResultAt(e, n), "downloaded", PyBool(FALSE)) = PyBool(TRUE)
     THEN {"file_content", "filename"} ELSE {})

\* the output of a returned execution holds its own results, or nothing
OwnOutput(e) ==
  log_entry[e].status = "success" =>
    log_entry[e].output_data = PyDict("actions" :> PyList(action_results[e]))

\* C23: executions that interleave at their suspension points, of the same
\* workflow or not, each keep a log record of their own: a step of one
\* execution leaves the log record, the context and the results of every other
\* execution as they were, and the context of an execution holds only keys of
\* its own event and of its own results.
C23_ExecutionsAreIsolated ==
  [][\A e \in Execs :
       /\ Position(e)' = Position(e) =>
            /\ log_entry'[e] = log_entry[e]
            /\ context'[e] = context[e]
            /\ action_results'[e] = action_results[e]
       /\ (DOMAIN context[e])' \subseteq OwnKeys(e)'
       /\ OwnOutput(e)'
       /\ log_entry'[e].status # "none" =>
            /\ log_entry'[e].input_data = trigger_data'[e]
            /\ log_entry'[e].workflow_id = wf_id'[e]]_vars

\* two executions of the same workflow await an external call at the same
\* time, and one has a result key in its context that the other has not
C23_Witness ==
  \E d, e \in Execs :
    /\ d # e /\ wf_id[d] = wf_id[e]
    /\ pc[d] = "await" /\ pc[e] = "await"
    /\ action_results[d] # <<>>
    /\ trigger_data[d] # trigger_data[e]
    /\ "lexoffice_contact_id" \in DOMAIN context[d] \ DOMAIN context[e]

(***************************************************************************)
(* Properties of the rate limit, under ThrottleSpec.                       *)
(***************************************************************************)
\* C24: of the requests one LexofficeConnector sends for a sequence of
\* operations, upload_file_to_voucher included, any two consecutive ones are
\* sent at least the rate-limit interval (0.5 s) apart.
C24_RequestsAreSpaced ==
  \A i \in 1..(Len(lexconn.sent) - 1) :
    lexconn.sent[i + 1].at - lexconn.sent[i].at >= RateLimitInterval

\* a file upload and the request after it, which waited for the interval counted
\* from the upload's answer
C24_Witness ==
  \E i \in 1..(Len(lexconn.sent) - 1) :
    /\ lexconn.sent[i].op = "upload_file_to_voucher"
    /\ lexconn.sent[i + 1].at - lexconn.sent[i].at = RateLimitInterval + 1
    /\ lexconn.sent[i + 1].at = lexconn.last

(***************************************************************************)
(* The inputs of the handlers.                                             *)
(***************************************************************************)
\* an identifier taken from the parameters when present, else from the context
ParamOrContext(action, ctx, key) ==
  PyOr(Get(Params(action), key, PyNone), Get(ctx, key, PyNone))

\* C25: a set_tag action takes the document id and the tag id from its
\* parameters when present and otherwise from the context: it asks for the
\* document whenever both ids are found in one of the two places, and gives the
\* result "not tagged" only when an id is missing from both.
C25_TagIdsFromParamsOrContext ==
  [][\A e \in Execs :
       (/\ pc[e] = "actions" /\ dispatched'[e] # dispatched[e]
        /\ CurrentAction(e).action_type = "set_tag") =>
         IF /\ Truthy(ParamOrContext(CurrentAction(e), context[e], "document_id"))
            /\ Truthy(ParamOrContext(CurrentAction(e), context[e], "tag_id"))
           THEN /\ pending'[e].op = "get_document"
                /\ pending'[e].args["document_id"] =
                     ParamOrContext(CurrentAction(e), context[e], "document_id")
           ELSE /\ pending'[e] = NoCall
                /\ Len(action_results'[e]) = Len(action_results[e]) + 1
                /\ Val(Val(action_results'[e][Len(action_results'[e])])["result"])["tagged"] =
                     PyBool(FALSE)
    ]_vars

\* the execution is inside a handler, or about to enter one, and moves
HandlerStep(e) ==
  /\ pc[e] \in {"actions", "await"}
  /\ act_pos[e] <= Len(Workflow(e).actions)
  /\ Position(e)' # Position(e)

\* C26: only download_document writes to the context itself.  A step in
\* which a handler returns changes the context by the executor's merge of the
\* result and by nothing else, except that a download that took place has put
\* file_content and filename there first; a step in which a handler sends a
\* request or fails, a download included, leaves the context as it is.  An
\* upload sends the bytes and the name it finds in the context.
C26_OnlyDownloadWritesContext ==
  [][\A e \in Execs : HandlerStep(e) =>
       /\ IF Len(action_results'[e]) = Len(action_results[e]) + 1
            THEN LET r == Val(Val(action_results'[e][Len(action_results'[e])])["result"]) IN
                 /\ context'[e] = Overwritten(HandlerWrote(context[e], r), r)
                 /\ (CurrentAction(e).action_type # "download_document"
                       \/ r["downloaded"] = PyBool(FALSE)) =>
                      context'[e] = Overwritten(context[e], r)
                 /\ (CurrentAction(e).action_type = "download_document"
                       /\ r["downloaded"] = PyBool(TRUE)) =>
                      /\ context'[e]["file_content"] = DocContent(42)
                      /\ context'[e]["filename"] = DocFileName(42)
            ELSE context'[e] = context[e]
       /\ (pending'[e] # pending[e] /\ pending'[e].op = "upload_document") =>
            /\ pending'[e].args["file_content"] = Get(context[e], "file_content", PyBytes(""))
            /\ "filename" \notin DOMAIN Params(CurrentAction(e)) =>
                 pending'[e].args["filename"] = Get(context[e], "filename", PyStr("document.pdf"))
    ]_vars

\* an upload placed after a download sends the downloaded bytes under the
\* document's file name
C26_Witness ==
  \E e \in Execs :
    /\ pc[e] = "await" /\ pending[e].op = "upload_document"
    /\ Len(action_results[e]) = 1
    /\ ResultAt(e, 1)["downloaded"] = PyBool(TRUE)
    /\ pending[e].args["file_content"] = DocContent(42)
    /\ pending[e].args["filename"] = DocFileName(42)

\* the name a sync_contact action works on
NameOf(e) == CorrespondentName(Params(CurrentAction(e)), context[e])
LastCall(q) == q[Len(q)]

\* C27: a sync_contact action with a correspondent name first sends
\* search-contacts; it sends create-contact only in the step in which that
\* search was answered without a contact, and returns without creating when
\* the search was answered with one; its result says created = true exactly
\* when it sent create-contact.
C27_SearchBeforeCreate ==
  [][\A e \in Execs :
       (HandlerStep(e) /\ CurrentAction(e).action_type = "sync_contact"
          /\ Truthy(NameOf(e))) =>
         LET found == SearchContent(lexoffice, NameOf(e))
             returns == Len(action_results'[e]) = Len(action_results[e]) + 1
             r == Val(Val(action_results'[e][Len(action_results'[e])])["result"])
             created == \E i \in DOMAIN calls'[e] :
                          calls'[e][i] = [op |-> "create_contact", pos |-> act_pos[e]]
         IN
         /\ pc[e] = "actions" =>
              /\ calls'[e] = Append(calls[e], [op |-> "search_contacts", pos |-> act_pos[e]])
              /\ pending'[e].args["name"] = NameOf(e)
         /\ (calls'[e] # calls[e] /\ LastCall(calls'[e]).op = "create_contact") =>
              /\ pc[e] = "await" /\ pending[e].op = "search_contacts"
              /\ LastCall(calls[e]) = [op |-> "search_contacts", pos |-> act_pos[e]]
              /\ found = PyList(<<>>)
              /\ lexoffice' = lexoffice
         /\ (pc[e] = "await" /\ pending[e].op = "search_contacts"
               /\ found # PyList(<<>>) /\ raised'[e] = raised[e]) =>
              /\ returns /\ calls'[e] = calls[e]
              /\ r["created"] = PyBool(FALSE)
              /\ r["lexoffice_contact_id"] = Val(Val(found)[1])["id"]
         /\ returns => (r["created"] = PyBool(TRUE) <=> created)
    ]_vars

\* one sync_contact found its contact by the search, another one had to
\* create it
C27_Witness ==
  \E d, e \in Execs :
    /\ Returned(d) /\ Returned(e)
    /\ action_results[d] # <<>> /\ action_results[e] # <<>>
    /\ Get(ResultAt(d, 1), "created", PyNone) = PyBool(TRUE)
    /\ Get(ResultAt(e, 1), "created", PyNone) = PyBool(FALSE)
    /\ ResultAt(d, 1)["lexoffice_contact_id"] = ResultAt(e, 1)["lexoffice_contact_id"]

\* the results of the execution so far in which a contact was synced
Synced(e) ==
  {n \in 1..Len(action_results[e]) :
     Get(ResultAt(e, n), "synced", PyBool(FALSE)) = PyBool(TRUE)}
Latest(S) == CHOOSE n \in S : \A m \in S : m <= n

\* C28: the voucher a create_lexoffice_voucher action sends carries its own
\* contact_id parameter when it has one; without the parameter, and after a
\* sync_contact of the same execution that synced, it carries the contact id
\* that the latest such sync_contact returned.
C28_VoucherCarriesSyncedContact ==
  \A e \in Execs :
    (pc[e] = "await" /\ pending[e].op = "create_voucher") =>
      LET own == Get(Params(CurrentAction(e)), "contact_id", PyNone) IN
      /\ Truthy(own) => Get(pending[e].args, "contactId", PyNone) = own
      /\ (~Truthy(own) /\ Synced(e) # {}) =>
           Get(pending[e].args, "contactId", PyNone) =
             ResultAt(e, Latest(Synced(e)))["lexoffice_contact_id"]

\* a voucher without contact_id parameter is sent with the contact the sync
\* returned, not with the one the event brought
C28_Witness ==
  \E e \in Execs :
    /\ pc[e] = "await" /\ pending[e].op = "create_voucher"
    /\ "contact_id" \notin DOMAIN Params(CurrentAction(e))
    /\ Synced(e) = {1}
    /\ "lexoffice_contact_id" \in DOMAIN trigger_data[e]
    /\ pending[e].args["contactId"] = ResultAt(e, 1)["lexoffice_contact_id"]
    /\ pending[e].args["contactId"] # trigger_data[e]["lexoffice_contact_id"]

(***************************************************************************)
(* Properties of add_tag_to_document, under TaggingSpec.                   *)
(***************************************************************************)
\* no add_tag_to_document is under way
Quiescent == \A e \in Execs : pc[e] \in {"idle", "done", "raised"}

\* the tags whose add_tag_to_document came back: the action reported tagged
TagsAdded ==
  {t \in {1, 5, 6} :
     \E e \in Execs : \E n \in 1..Len(action_results[e]) :
       /\ Get(ResultAt(e, n), "tagged", PyBool(FALSE)) = PyBool(TRUE)
       /\ Params(Workflow(e).actions[SortOrder(Workflow(e).actions)[n]])["tag_id"] = PyInt(t)}

Occurrences(q, t) == Cardinality({i \in DOMAIN q : q[i] = t})

\* C29: once the add_tag_to_document operations on a document, of one or of
\* several overlapping executions, have completed, the document's tag list
\* holds every tag that was added and every tag it had before, each once; and
\* the write of an operation whose tag the document already had leaves the
\* tag list as it was.
C29_NoTagIsLost ==
  [][/\ Quiescent' =>
          /\ \A t \in TagsAdded' \cup {InitPaperless.tags[42][i] : i \in DOMAIN InitPaperless.tags[42]} :
               Occurrences(paperless'.tags[42], t) = 1
          /\ \A t \in {1, 5, 6} : Occurrences(paperless'.tags[42], t) <= 1
     /\ \A e \in Execs :
          (/\ pc[e] = "await" /\ pending[e].op = "update_document" /\ pc'[e] = "actions"
           /\ \E i \in DOMAIN paperless.tags[42] :
                PyInt(paperless.tags[42][i]) = Params(CurrentAction(e))["tag_id"]) =>
            paperless'.tags[42] = paperless.tags[42]
    ]_vars

====
